---- MODULE Spec2Model ----
(***************************************************************************)
(* A model of sqsrouter: the Router (registry, middleware chain, core      *)
(* routing pipeline, failure policies) and the SQS Consumer (polling loop  *)
(* and per-message workers).                                               *)
(*                                                                         *)
(* Spec         one Router; registrations happen between Route calls and a *)
(*              Route call runs step by step through the middleware chain  *)
(*              and the core pipeline.                                     *)
(* ConsumerSpec Consumer.Start, the cancellation of its polling context    *)
(*              and the worker goroutines it launches.                     *)
(* CustomRoutingSpec  the Router of Spec built with a routing policy of    *)
(*              the user's (fallback to v1, or one fixed key).             *)
(* PolicySpec   the built-in failure and routing policies called on their  *)
(*              own, for every argument.                                   *)
(* ConcurrentSpec  the Router with registrations running between the steps *)
(*              of a Route call.                                           *)
(* ConsumerLiveSpec  the Consumer with its goroutines scheduled fairly.    *)
(* SlowWorkersSpec  the Consumer polling faster than its workers run, the  *)
(*              goroutines running one at a time.                          *)
(* KeySpec      the registrations of a Router for types and versions that  *)
(*              contain the separator of the key.                          *)
(* FaultyClientSpec  the Consumer with a queue client whose DeleteMessage   *)
(*              may panic, routing to handlers that report no error.       *)
(***************************************************************************)
EXTENDS Naturals, Sequences, FiniteSets, TLC

VARIABLES
  \* ---- Router (types.go Router struct) ----
  handlers,       \* r.handlers: key -> handler (a function on the registered keys)
  schemas,        \* r.schemas: key -> payload schema
  middlewares,    \* r.middlewares, in registration order
  routingPolicy,  \* r.routingPolicy ("nil" when none was configured)
  failurePolicy,  \* r.failurePolicy
  \* ---- one Route call ----
  pc,             \* where the call is
  state,          \* the call's *RouteState
  chain,          \* the wrapped core: the middlewares from outermost to innermost
  depth,          \* the link of the chain that is running (Len(chain)+1: coreRoute)
  ret,            \* the (RoutedResult, error) pair travelling back up the chain
  routed,         \* Route's local variable routed (its return value once pc = "done")
  exit,           \* the branch Route returned through
  trace,          \* what happened during the call, in order
  \* ---- Consumer ----
  cpc,            \* where Consumer.Start is
  ctxCancelled,   \* the polling context passed to Start has been cancelled
  batch,          \* messages of the last ReceiveMessage output not yet launched
  workers,        \* worker goroutines launched by Start, by launch order
  wg,             \* the sync.WaitGroup counter
  clog,           \* the queue calls and launches made so far, in order
  \* ---- a policy called on its own ----
  pcall,          \* the call: its arguments, and its results once made
  \* ---- what the callers of the router have seen (a history variable) ----
  hist            \* the registry when the Route call in progress started, and
                  \* what the registration calls returned

rvars == <<handlers, schemas, middlewares, routingPolicy, failurePolicy>>
callvars == <<pc, state, chain, depth, ret, routed, exit, trace>>
cvars == <<cpc, ctxCancelled, batch, workers, wg, clog>>
pvars == <<pcall>>
hvars == <<hist>>
vars == <<handlers, schemas, middlewares, routingPolicy, failurePolicy,
          pc, state, chain, depth, ret, routed, exit, trace,
          cpc, ctxCancelled, batch, workers, wg, clog, pcall, hist>>

(***************************************************************************)
(* Bounds of the model.                                                    *)
(***************************************************************************)
\* the longest middleware list registered
MaxMw == 2
\* how many times, during one Route call, a middleware calls next again
MaxAgain == 1
\* how many workers one execution of Consumer.Start launches
MaxWorkers == 2
\* how many ReceiveMessage calls one execution of Consumer.Start issues
MaxReceives == 2
\* how many workers Consumer.Start launches when its workers run one at a time
MaxInFlight == 6

(***************************************************************************)
(* Constants of the consumer (consumer.go).                                *)
(***************************************************************************)
\* MaxNumberOfMessages asked of one ReceiveMessage call
maxMessages == 5

(***************************************************************************)
(* Errors.  An error value is nil or carries the sentinel it wraps;        *)
(* tagged says that errors.As finds a coreFailureErr in it, of kind fk.    *)
(***************************************************************************)
NilErr == [sentinel |-> "nil", tagged |-> FALSE, fk |-> "None"]
PlainErr(s) == [sentinel |-> s, tagged |-> FALSE, fk |-> "None"]
coreFailureErr(kind, cause) == [sentinel |-> cause.sentinel, tagged |-> TRUE, fk |-> kind]

\* fmt.Errorf("mw wrap: %w", err): an error of the middleware in which
\* errors.As still finds the tag err carries
Wrap(err) == [err EXCEPT !.sentinel = "mw wrap"]

\* errors.As never finding the tag
ErrorsAsCoreFailure_Never(err) == FALSE

\* var cfe coreFailureErr; errors.As(err, &cfe)
ErrorsAsCoreFailure(err) == err.tagged

FailureKinds == {"None", "EnvelopeSchema", "EnvelopeParse", "PayloadSchema", "NoHandler",
                 "HandlerError", "HandlerPanic", "MiddlewareError"}

Result(sd, e) == [ShouldDelete |-> sd, Error |-> e]

(***************************************************************************)
(* Failure policies.                                                       *)
(***************************************************************************)
\* the inner cause replaces an error that is already attached
AttachInner_Overwrites(inner, current) ==
  IF inner # NilErr THEN inner ELSE current.Error

\* the inner cause is wrapped around whatever error is attached
AttachInner_Wraps(inner, current) ==
  IF inner # NilErr
  THEN [inner EXCEPT !.sentinel = inner.sentinel \o ": " \o current.Error.sentinel]
  ELSE current.Error

AttachInner(inner, current) ==
  IF inner # NilErr /\ current.Error = NilErr THEN inner ELSE current.Error

\* ImmediateDeletePolicy forcing the delete on a middleware error too
ImmediateDeletePolicyDecide_MiddlewareDeletes(kind, inner, current) ==
  CASE kind = "None" -> current
    [] kind \in {"EnvelopeSchema", "EnvelopeParse", "PayloadSchema", "NoHandler", "HandlerPanic",
                 "MiddlewareError"} ->
         Result(TRUE, AttachInner(inner, current))
    [] kind \in {"HandlerError"} ->
         Result(current.ShouldDelete, AttachInner(inner, current))
    [] OTHER -> current

\* ImmediateDeletePolicy treating a panic like a handler error
ImmediateDeletePolicyDecide_PanicKept(kind, inner, current) ==
  CASE kind = "None" -> current
    [] kind \in {"EnvelopeSchema", "EnvelopeParse", "PayloadSchema", "NoHandler"} ->
         Result(TRUE, AttachInner(inner, current))
    [] kind \in {"MiddlewareError", "HandlerError", "HandlerPanic"} ->
         Result(current.ShouldDelete, AttachInner(inner, current))
    [] OTHER -> current

\* ImmediateDeletePolicy with PayloadSchema left out of the kinds that force a delete
ImmediateDeletePolicyDecide_PayloadKept(kind, inner, current) ==
  CASE kind = "None" -> current
    [] kind \in {"EnvelopeSchema", "EnvelopeParse", "NoHandler", "HandlerPanic"} ->
         Result(TRUE, AttachInner(inner, current))
    [] OTHER -> Result(current.ShouldDelete, AttachInner(inner, current))

ImmediateDeletePolicyDecide(kind, inner, current) ==
  CASE kind = "None" -> current
    [] kind \in {"EnvelopeSchema", "EnvelopeParse", "PayloadSchema", "NoHandler", "HandlerPanic"} ->
         Result(TRUE, AttachInner(inner, current))
    [] kind \in {"MiddlewareError", "HandlerError"} ->
         Result(current.ShouldDelete, AttachInner(inner, current))
    [] OTHER -> current

\* SQSRedrivePolicy without its special case for kind None
SQSRedrivePolicyDecide_NoneIsFailure(kind, inner, current) ==
  Result(FALSE, AttachInner(inner, current))

\* SQSRedrivePolicy keeping the current delete decision
SQSRedrivePolicyDecide_KeepsDelete(kind, inner, current) ==
  IF kind = "None" THEN current
  ELSE Result(current.ShouldDelete, AttachInner(inner, current))

SQSRedrivePolicyDecide(kind, inner, current) ==
  IF kind = "None" THEN current
  ELSE Result(FALSE, AttachInner(inner, current))

FailurePolicies == {"ImmediateDeletePolicy", "SQSRedrivePolicy"}

\* r.failurePolicy.Decide(ctx, kind, inner, current): dynamic dispatch on the policy
Decide(policy, kind, inner, current) ==
  IF policy = "SQSRedrivePolicy" THEN SQSRedrivePolicyDecide(kind, inner, current)
  ELSE ImmediateDeletePolicyDecide(kind, inner, current)

(***************************************************************************)
(* Messages.  A raw message is a JSON document described by what the       *)
(* envelope schema and json.Unmarshal look at: whether it is JSON at all,  *)
(* which top-level fields it has, whether the metadata members are strings *)
(* (the schema only asks metadata to be an object; Unmarshal needs string  *)
(* members), and the payload as the set of members of "message".           *)
(***************************************************************************)
EnvelopeRequired == {"schemaVersion", "messageType", "messageVersion", "message", "metadata"}

Raw(isJSON, fields, t, v, payload, metaStrings) ==
  [json |-> isJSON, fields |-> fields, messageType |-> t, messageVersion |-> v,
   message |-> payload, metaStrings |-> metaStrings,
   messageId |-> "id-1", timestamp |-> "2024-01-01T00:00:00Z"]

NoRaw == Raw(FALSE, {}, "", "", {}, TRUE)

RawMessages ==
  { Raw(FALSE, {}, "", "", {}, TRUE),
    Raw(TRUE, EnvelopeRequired \ {"metadata"}, "T", "v1", {"userId", "username"}, TRUE),
    Raw(TRUE, EnvelopeRequired, "T", "v1", {"userId", "username"}, FALSE),
    Raw(TRUE, EnvelopeRequired, "T", "v1", {"userId", "username"}, TRUE),
    Raw(TRUE, EnvelopeRequired, "T", "v1", {"userId"}, TRUE),
    Raw(TRUE, EnvelopeRequired, "T", "v2", {"userId", "username"}, TRUE) }

\* jsonschema.Validate + FormatErrors against the envelope schema: nil iff valid
ValidateEnvelope(raw) == raw.json /\ EnvelopeRequired \subseteq raw.fields

\* json.Unmarshal(state.Raw, &envelope) succeeds
UnmarshalOK(raw) == raw.json /\ raw.metaStrings

\* the MessageEnvelope json.Unmarshal fills in (absent members stay zero)
Unmarshal(raw) ==
  [MessageType |-> raw.messageType, MessageVersion |-> raw.messageVersion,
   Message |-> raw.message,
   Metadata |-> IF "metadata" \in raw.fields
                THEN [MessageID |-> raw.messageId, Timestamp |-> raw.timestamp]
                ELSE [MessageID |-> "", Timestamp |-> ""]]

\* a payload schema is the set of members it requires
ValidatePayload(schema, payload) == schema.required \subseteq payload

NoEnvelope == [MessageType |-> "", MessageVersion |-> "", Message |-> {},
               Metadata |-> [MessageID |-> "", Timestamp |-> ""]]

(***************************************************************************)
(* Results.                                                                *)
(***************************************************************************)
RoutedResult(t, v, hr, id, ts) ==
  [MessageType |-> t, MessageVersion |-> v, HandlerResult |-> hr,
   MessageID |-> id, Timestamp |-> ts]

ZeroResult == RoutedResult("", "", Result(FALSE, NilErr), "", "")

\* rr with the policy's decision applied (rr.HandlerResult.ShouldDelete = pr.ShouldDelete; ...Error = pr.Error)
Apply(rr, pr) == [rr EXCEPT !.HandlerResult = pr]

(***************************************************************************)
(* Registry.                                                               *)
(***************************************************************************)
\* what is registered; messages also come for the unregistered "T:v2", and
\* two handlers compete for the one key
Types == {"T"}
Versions == {"v1"}
Handlers == {"h1", "h2"}
Middlewares == {"mw"}
\* schema strings: one that compiles and one that does not
SchemaStrings == { [compiles |-> TRUE, required |-> {"userId", "username"}],
                   [compiles |-> FALSE, required |-> {}] }

makeKey(messageType, messageVersion) == messageType \o ":" \o messageVersion

\* a map that keeps the value it already holds for the key
MapPut_FirstWins(m, k, v) ==
  [x \in DOMAIN m \cup {k} |-> IF x \in DOMAIN m THEN m[x] ELSE v]

\* a fresh map holding the new entry only
MapPut_Replaces(m, k, v) == [x \in {k} |-> v]

\* m with key k set to v (a Go map assignment)
MapPut(m, k, v) == [x \in DOMAIN m \cup {k} |-> IF x = k THEN v ELSE m[x]]

\* a Register that makes room by dropping the other keys
Register_EvictsOthers(messageType, messageVersion, handler) ==
  /\ handlers' = [k \in {makeKey(messageType, messageVersion)} |-> handler]
  /\ UNCHANGED <<schemas, middlewares, routingPolicy, failurePolicy>>

\* a Register that also drops the schema stored under its key
Register_DropsSchema(messageType, messageVersion, handler) ==
  /\ handlers' = MapPut(handlers, makeKey(messageType, messageVersion), handler)
  /\ schemas' = [k \in DOMAIN schemas \ {makeKey(messageType, messageVersion)} |-> schemas[k]]
  /\ UNCHANGED <<middlewares, routingPolicy, failurePolicy>>

Register(messageType, messageVersion, handler) ==
  /\ handlers' = MapPut(handlers, makeKey(messageType, messageVersion), handler)
  /\ UNCHANGED <<schemas, middlewares, routingPolicy, failurePolicy>>

\* the error RegisterSchema returns: nil, or one wrapping ErrInvalidSchema
\* when jsonschema.NewSchema rejects the string
RegisterSchemaError(schema) == IF schema.compiles THEN "nil" ELSE "ErrInvalidSchema"

\* the schema stored whatever the compiler said
RegisterSchema_StoresAnyway(messageType, messageVersion, schema) ==
  /\ schemas' = MapPut(schemas, makeKey(messageType, messageVersion), schema)
  /\ UNCHANGED <<handlers, middlewares, routingPolicy, failurePolicy>>

RegisterSchema(messageType, messageVersion, schema) ==
  /\ IF RegisterSchemaError(schema) = "nil"
     THEN schemas' = MapPut(schemas, makeKey(messageType, messageVersion), schema)
     ELSE UNCHANGED schemas
  /\ UNCHANGED <<handlers, middlewares, routingPolicy, failurePolicy>>

Use(mw) ==
  /\ Len(middlewares) + Len(mw) <= MaxMw
  /\ middlewares' = IF Len(mw) = 0 THEN middlewares ELSE middlewares \o mw
  /\ UNCHANGED <<handlers, schemas, routingPolicy, failurePolicy>>

(***************************************************************************)
(* Routing policy.                                                         *)
(***************************************************************************)
RoutingPolicies == {"nil", "ExactMatchPolicy"}
\* routing policies written by the user of the library
CustomRoutingPolicies == {"testRoutingPolicy", "staticRoutingPolicy"}

\* the wanted key returned without looking for it among the available keys
ExactMatchPolicyDecide_Unchecked(envelope, available) ==
  envelope.MessageType \o ":" \o envelope.MessageVersion

ExactMatchPolicyDecide(envelope, available) ==
  LET want == envelope.MessageType \o ":" \o envelope.MessageVersion
  IN IF want \in available THEN want ELSE ""

\* a custom policy: the exact key when available, else the type's v1
testRoutingPolicyDecide(env, available) ==
  LET exact == env.MessageType \o ":" \o env.MessageVersion
      fallback == env.MessageType \o ":v1"
  IN IF exact \in available THEN exact
     ELSE IF fallback \in available THEN fallback
     ELSE ""

\* a custom policy that does not look at the available keys (the interface
\* lets an implementation return any key): every message goes to "T:v1"
staticRoutingPolicyDecide(envelope, availableHandlers) == "T:v1"

\* r.routingPolicy.Decide(ctx, &envelope, available): dynamic dispatch on the policy
RoutingDecision(policy, envelope, available) ==
  IF policy = "ExactMatchPolicy" THEN ExactMatchPolicyDecide(envelope, available)
  ELSE IF policy = "staticRoutingPolicy" THEN staticRoutingPolicyDecide(envelope, available)
  ELSE testRoutingPolicyDecide(envelope, available)

(***************************************************************************)
(* One Route call.  A pointer is a sequence of at most one element (<<>>   *)
(* is nil).  The chain runs as a stack of links: link d <= Len(chain) is   *)
(* the middleware chain[d], link Len(chain)+1 is coreRoute.  What a        *)
(* middleware or a handler does is user code: it is chosen when it runs.   *)
(***************************************************************************)
\* an entry of the trace; slot is the middleware's place in the registration
\* order (0 when the entry is not about a middleware)
Event(e, a) == [ev |-> e, arg |-> a, slot |-> 0]
MwEvent(e, link) == [ev |-> e, arg |-> link.mw, slot |-> link.slot]

NewRouteState(rawMessage) ==
  [Raw |-> rawMessage, Envelope |-> <<>>, HandlerKey |-> "", HandlerExists |-> FALSE,
   SchemaExists |-> FALSE, Metadata |-> <<>>, Handler |-> "nil", Schema |-> <<>>]

\* what a link returns: the result, the error, and (for the record) the failure
\* kind under which the core decided that result
Return(rr, err, kind) == [rr |-> rr, err |-> err, kind |-> kind]
NoReturn == Return(ZeroResult, NilErr, "None")

AgainCount == Cardinality({i \in 1..Len(trace) : trace[i].ev = "again"})

\* the chain folded the other way round: the last registered ends outermost
BuildChain_LastOutermost(mws) ==
  [d \in 1..Len(mws) |-> [slot |-> Len(mws) + 1 - d, mw |-> mws[Len(mws) + 1 - d]]]

\* for i := len(mws) - 1; i >= 0; i-- { core = mws[i](core) }: the first registered ends outermost
BuildChain(mws) == [d \in 1..Len(mws) |-> [slot |-> d, mw |-> mws[d]]]

\* Route takes its snapshot of the middlewares and wraps the core; applying a
\* middleware (mws[i](core)) runs it outside the recovery guard
RouteBegin(rawMessage) ==
  /\ pc = "idle"
  /\ state' = NewRouteState(rawMessage)
  /\ ret' = NoReturn
  /\ routed' = ZeroResult
  /\ exit' = "none"
  /\ \E wrapPanics \in BOOLEAN :
       /\ wrapPanics => Len(middlewares) > 0
       /\ IF wrapPanics
          THEN /\ pc' = "escaped"
               /\ chain' = <<>>
               /\ depth' = 0
               /\ trace' = <<Event("wrapPanic", "")>>
          ELSE /\ chain' = BuildChain(middlewares)
               /\ depth' = 1
               /\ pc' = IF Len(middlewares) = 0 THEN "core" ELSE "call"
               /\ trace' = IF Len(middlewares) = 0 THEN <<Event("core", "")>> ELSE <<>>
  /\ UNCHANGED rvars

\* the middleware list read from the router each time next is called
Wrapped_Live == BuildChain(middlewares)

\* the function Route runs: the core wrapped in the middlewares of its
\* snapshot (mws := r.middlewares, a slice Use never writes to again)
Wrapped == chain

\* calling link d+1 from link d
CallNext(d) ==
  /\ depth' = d + 1
  /\ pc' = IF d + 1 > Len(Wrapped) THEN "core" ELSE "call"

CoreStarts(d) == IF d + 1 > Len(Wrapped) THEN <<Event("core", "")>> ELSE <<>>

\* the middleware Wrapped[depth] is called: it calls next, panics, or returns
\* without calling next (with an error of its own or without)
MwEnter ==
  /\ pc = "call"
  /\ \/ /\ trace' = trace \o <<MwEvent("pre", Wrapped[depth])>> \o CoreStarts(depth)
        /\ CallNext(depth)
        /\ UNCHANGED ret
     \/ /\ trace' = trace \o <<MwEvent("pre", Wrapped[depth]), MwEvent("mwPanic", Wrapped[depth])>>
        /\ pc' = "recover"
        /\ UNCHANGED <<depth, ret>>
     \/ \E e \in {NilErr, PlainErr("mw error")} :
          /\ trace' = trace \o <<MwEvent("pre", Wrapped[depth]), MwEvent("skip", Wrapped[depth])>>
          /\ ret' = Return(ZeroResult, e, "None")
          /\ depth' = depth - 1
          /\ pc' = "ret"
  /\ UNCHANGED <<state, chain, routed, exit>>
  /\ UNCHANGED rvars

\* the errors a middleware may return when next returned err: err itself, an
\* error of its own (which may wrap err: that matters when err carries the
\* tag), or none
PostErrors(err) ==
  {err, PlainErr("mw error"), NilErr} \cup (IF err.tagged THEN {Wrap(err)} ELSE {})

\* next has returned to the middleware Wrapped[depth]: it returns the result with
\* the error it got (as it is or wrapped), with an error of its own or with
\* none, or panics, or calls next once more
MwResume ==
  /\ pc = "ret"
  /\ depth >= 1
  /\ \/ \E e \in PostErrors(ret.err) :
          /\ trace' = Append(trace, MwEvent("post", Wrapped[depth]))
          /\ ret' = [ret EXCEPT !.err = e]
          /\ depth' = depth - 1
          /\ pc' = "ret"
     \/ /\ trace' = Append(trace, MwEvent("mwPanic", Wrapped[depth]))
        /\ pc' = "recover"
        /\ UNCHANGED <<depth, ret>>
     \/ /\ AgainCount < MaxAgain
        /\ trace' = trace \o <<MwEvent("again", Wrapped[depth])>> \o CoreStarts(depth)
        /\ CallNext(depth)
        /\ UNCHANGED ret
  /\ UNCHANGED <<state, chain, routed, exit>>
  /\ UNCHANGED rvars

(***************************************************************************)
(* coreRoute.                                                              *)
(***************************************************************************)
ErrorResult(t, v, e, id, ts) == RoutedResult(t, v, Result(FALSE, e), id, ts)

\* a failure site that returns its provisional result without the policy
CoreFail_Undecided(kind, rr, evs) ==
  /\ ret' = Return(rr, coreFailureErr(kind, rr.HandlerResult.Error), kind)
  /\ trace' = trace \o evs
  /\ depth' = depth - 1
  /\ pc' = "ret"

\* a failure site of the core: the policy decides, and the decided result
\* goes back up the chain with the tagged error
CoreFail(kind, rr, evs) ==
  LET pr == Decide(failurePolicy, kind, rr.HandlerResult.Error, rr.HandlerResult)
  IN /\ ret' = Return(Apply(rr, pr), coreFailureErr(kind, pr.Error), kind)
     /\ trace' = trace \o evs \o <<Event("decide", kind)>>
     /\ depth' = depth - 1
     /\ pc' = "ret"

\* Steps 1 and 2: validate the envelope, then parse it
CoreEnvelope ==
  /\ pc = "core"
  /\ IF ~ValidateEnvelope(state.Raw)
     THEN /\ CoreFail("EnvelopeSchema",
                      ErrorResult("unknown", "unknown", PlainErr("ErrInvalidEnvelope"), "", ""),
                      <<>>)
          /\ UNCHANGED state
     ELSE IF ~UnmarshalOK(state.Raw)
     THEN /\ CoreFail("EnvelopeParse",
                      ErrorResult("unknown", "unknown", PlainErr("ErrFailedToParseEnvelope"), "", ""),
                      <<Event("envelopeValid", "")>>)
          /\ UNCHANGED state
     ELSE /\ state' = [state EXCEPT !.Envelope = <<Unmarshal(state.Raw)>>]
          /\ trace' = trace \o <<Event("envelopeValid", ""), Event("envelopeParsed", "")>>
          /\ pc' = "select"
          /\ UNCHANGED <<depth, ret>>
  /\ UNCHANGED <<chain, routed, exit>>
  /\ UNCHANGED rvars

\* the handler key: exact match when no routing policy is set, else the
\* policy's choice among the registered keys
CoreSelect ==
  /\ pc = "select"
  /\ LET envelope == state.Envelope[1]
         decided == IF routingPolicy = "nil"
                    THEN makeKey(envelope.MessageType, envelope.MessageVersion)
                    ELSE RoutingDecision(routingPolicy, envelope, DOMAIN handlers)
     IN /\ state' = [state EXCEPT !.HandlerKey = decided]
        /\ trace' = Append(trace, Event("selected", decided))
  /\ pc' = "resolve"
  /\ UNCHANGED <<chain, depth, ret, routed, exit>>
  /\ UNCHANGED rvars

\* the handler's existence checked before the payload is validated
ResolveStep_HandlerFirst(schemaExists, payloadValid, handlerExists) ==
  IF ~handlerExists THEN "NoHandler"
  ELSE IF schemaExists /\ ~payloadValid THEN "PayloadSchema"
  ELSE "invoke"

\* the core without its payload validation step
ResolveStep_NoPayloadCheck(schemaExists, payloadValid, handlerExists) ==
  IF ~handlerExists THEN "NoHandler" ELSE "invoke"

\* the core without its handler-existence check
ResolveStep_NoHandlerCheck(schemaExists, payloadValid, handlerExists) ==
  IF schemaExists /\ ~payloadValid THEN "PayloadSchema" ELSE "invoke"

\* Steps 4 and 5 in the order the core takes them: the payload schema first,
\* the handler's existence second
ResolveStep(schemaExists, payloadValid, handlerExists) ==
  IF schemaExists /\ ~payloadValid THEN "PayloadSchema"
  ELSE IF ~handlerExists THEN "NoHandler"
  ELSE "invoke"

\* a lookup that finds no schema, registered or not
LookupSchema_Missing(key) == <<>>

\* schemaLoader, schemaExists := r.schemas[state.HandlerKey], under RLock:
\* the schema the map holds for the key now, if any
LookupSchema(key) == IF key \in DOMAIN schemas THEN <<schemas[key]>> ELSE <<>>

\* Steps 3 to 5: look the key up, validate the payload when a schema is
\* registered, then require a handler
CoreResolve ==
  /\ pc = "resolve"
  /\ LET envelope == state.Envelope[1]
         handlerExists == state.HandlerKey \in DOMAIN handlers
         schemaLoader == LookupSchema(state.HandlerKey)
         schemaExists == schemaLoader # <<>>
         failed(e) == ErrorResult(envelope.MessageType, envelope.MessageVersion, e,
                                  envelope.Metadata.MessageID, envelope.Metadata.Timestamp)
         checked == IF schemaExists THEN <<Event("payloadValid", state.HandlerKey)>> ELSE <<>>
         step == ResolveStep(schemaExists,
                             schemaExists /\ ValidatePayload(schemaLoader[1], envelope.Message),
                             handlerExists)
     IN /\ state' = [state EXCEPT !.Handler = IF handlerExists THEN handlers[state.HandlerKey] ELSE "nil",
                                  !.Schema = schemaLoader,
                                  !.HandlerExists = handlerExists,
                                  !.SchemaExists = schemaExists]
        /\ IF step = "PayloadSchema"
           THEN CoreFail("PayloadSchema", failed(PlainErr("ErrInvalidMessagePayload")), <<>>)
           ELSE IF step = "NoHandler"
           THEN CoreFail("NoHandler", failed(PlainErr("ErrNoHandlerRegistered")), checked)
           ELSE /\ trace' = trace \o checked \o <<Event("resolved", state.HandlerKey)>>
                /\ pc' = "invoke"
                /\ UNCHANGED <<depth, ret>>
  /\ UNCHANGED <<chain, routed, exit>>
  /\ UNCHANGED rvars

\* the version a result of the core carries: the selected key's
ResultVersion_OfSelectedKey(envelope, key) ==
  IF \E v \in {"v1", "v2"} : makeKey(envelope.MessageType, v) = key
  THEN CHOOSE v \in {"v1", "v2"} : makeKey(envelope.MessageType, v) = key
  ELSE envelope.MessageVersion

\* the version a result of the core carries: MessageVersion: envelope.MessageVersion
ResultVersion(envelope, key) == envelope.MessageVersion

\* what a handler may do: return any HandlerResult, or panic
HandlerOutcomes ==
  {[panics |-> TRUE, result |-> Result(FALSE, NilErr)]}
    \cup {[panics |-> FALSE, result |-> Result(sd, e)] :
            sd \in BOOLEAN, e \in {NilErr, PlainErr("handler error")}}

\* a HandlerResult as the trace records it
Verdict(hr) ==
  (IF hr.ShouldDelete THEN "delete" ELSE "retry") \o (IF hr.Error # NilErr THEN "+error" ELSE "")

\* a handler error that the core does not look at
HandlerFailed_Never(handlerResult) == FALSE

\* line 234: handlerResult.Error != nil
HandlerFailed(handlerResult) == handlerResult.Error # NilErr

\* the handler is invoked; when it returns an error the policy decides
CoreInvoke ==
  /\ pc = "invoke"
  /\ \E o \in HandlerOutcomes :
       LET envelope == state.Envelope[1]
           meta == envelope.Metadata
           handlerResult == o.result
           rr == RoutedResult(envelope.MessageType, ResultVersion(envelope, state.HandlerKey),
                              handlerResult, meta.MessageID, meta.Timestamp)
           pr == Decide(failurePolicy, "HandlerError", handlerResult.Error, rr.HandlerResult)
       IN /\ state' = [state EXCEPT !.Metadata = <<meta>>]
          /\ IF o.panics
             THEN /\ trace' = trace \o <<Event("handler", state.Handler), Event("panicked", "")>>
                  /\ pc' = "recover"
                  /\ UNCHANGED <<depth, ret>>
             ELSE IF HandlerFailed(handlerResult)
             THEN /\ trace' = trace \o <<Event("handler", state.Handler),
                                         Event("returned", Verdict(handlerResult)),
                                         Event("decide", "HandlerError")>>
                  /\ ret' = Return(Apply(rr, pr), NilErr, "HandlerError")
                  /\ depth' = depth - 1
                  /\ pc' = "ret"
             ELSE /\ trace' = trace \o <<Event("handler", state.Handler),
                                         Event("returned", Verdict(handlerResult))>>
                  /\ ret' = Return(rr, NilErr, "None")
                  /\ depth' = depth - 1
                  /\ pc' = "ret"
  /\ UNCHANGED <<chain, routed, exit>>
  /\ UNCHANGED rvars

(***************************************************************************)
(* Route's guard and its handling of what the chain returned.              *)
(***************************************************************************)
\* a recover that unregisters the handler that panicked
RouteRecover_Unregisters ==
  /\ pc = "recover"
  /\ LET known == state.Envelope # <<>>
         tmp == ErrorResult(IF known THEN state.Envelope[1].MessageType ELSE "unknown",
                            IF known THEN state.Envelope[1].MessageVersion ELSE "unknown",
                            PlainErr("ErrPanic"),
                            IF known THEN state.Envelope[1].Metadata.MessageID ELSE "",
                            IF known THEN state.Envelope[1].Metadata.Timestamp ELSE "")
         pr == Decide(failurePolicy, "HandlerPanic", tmp.HandlerResult.Error, tmp.HandlerResult)
     IN /\ routed' = Apply(tmp, pr)
        /\ trace' = Append(trace, Event("decide", "HandlerPanic"))
  /\ exit' = "panic"
  /\ pc' = "done"
  /\ UNCHANGED <<state, chain, depth, ret>>
  /\ handlers' = [k \in DOMAIN handlers \ {state.HandlerKey} |-> handlers[k]]
  /\ UNCHANGED <<schemas, middlewares, routingPolicy, failurePolicy>>

\* the deferred recover: a panic raised in the chain becomes HandlerPanic
RouteRecover ==
  /\ pc = "recover"
  /\ LET known == state.Envelope # <<>>
         tmp == ErrorResult(IF known THEN state.Envelope[1].MessageType ELSE "unknown",
                            IF known THEN state.Envelope[1].MessageVersion ELSE "unknown",
                            PlainErr("ErrPanic"),
                            IF known THEN state.Envelope[1].Metadata.MessageID ELSE "",
                            IF known THEN state.Envelope[1].Metadata.Timestamp ELSE "")
         pr == Decide(failurePolicy, "HandlerPanic", tmp.HandlerResult.Error, tmp.HandlerResult)
     IN /\ routed' = Apply(tmp, pr)
        /\ trace' = Append(trace, Event("decide", "HandlerPanic"))
  /\ exit' = "panic"
  /\ pc' = "done"
  /\ UNCHANGED <<state, chain, depth, ret>>
  /\ UNCHANGED rvars

\* the chain returned (routed, err) without panicking
RouteFinish ==
  /\ pc = "ret"
  /\ depth = 0
  /\ IF ret.err # NilErr /\ ~ErrorsAsCoreFailure(ret.err)
     THEN LET pr == Decide(failurePolicy, "MiddlewareError", ret.err, ret.rr.HandlerResult)
          IN /\ routed' = Apply(ret.rr, pr)
             /\ trace' = Append(trace, Event("decide", "MiddlewareError"))
             /\ exit' = "middlewareError"
     ELSE /\ routed' = ret.rr
          /\ trace' = trace
          /\ exit' = IF ret.err # NilErr THEN "coreFailure" ELSE "noError"
  /\ pc' = "done"
  /\ UNCHANGED <<state, chain, depth, ret>>
  /\ UNCHANGED rvars

\* the caller has the result (or the panic): the call is over
RouteReturn ==
  /\ pc \in {"done", "escaped"}
  /\ pc' = "idle"
  /\ state' = NewRouteState(NoRaw)
  /\ chain' = <<>>
  /\ depth' = 0
  /\ ret' = NoReturn
  /\ routed' = ZeroResult
  /\ exit' = "none"
  /\ trace' = <<>>
  /\ UNCHANGED rvars

Quiescent == pc = "idle"

(***************************************************************************)
(* History.  hist records, for the properties, what the callers saw: the   *)
(* registry as Route found it when it started (start), the schema keys     *)
(* RegisterSchema stored again since (overwritten), the keys Register      *)
(* returned for (registered), the last Register or RegisterSchema call     *)
(* when nothing happened since (lastReg: its error and the registry before *)
(* it), and the handler of the most recent Register call for each key      *)
(* (latest) and for each pair of type and version (byPair).                *)
(***************************************************************************)
Registry == [handlers |-> handlers, schemas |-> schemas, middlewares |-> middlewares]
NoRegistry == [handlers |-> <<>>, schemas |-> <<>>, middlewares |-> <<>>]
NoReg == [op |-> "none", key |-> "", err |-> "nil", before |-> NoRegistry]
NoHist == [start |-> NoRegistry, overwritten |-> {}, registered |-> {}, lastReg |-> NoReg,
           latest |-> <<>>, byPair |-> <<>>]

\* Register(messageType, messageVersion, handler) returned, to a caller that
\* looks at the router next (keep) or not
NoteRegister(messageType, messageVersion, handler, keep) ==
  hist' = [hist EXCEPT
             !.registered = @ \cup {makeKey(messageType, messageVersion)},
             !.lastReg = IF keep
                         THEN [op |-> "Register", key |-> makeKey(messageType, messageVersion),
                               err |-> "nil", before |-> Registry]
                         ELSE NoReg,
             !.latest = [k \in DOMAIN hist.latest \cup {makeKey(messageType, messageVersion)} |->
                           IF k = makeKey(messageType, messageVersion) THEN handler
                           ELSE hist.latest[k]],
             !.byPair = [p \in DOMAIN hist.byPair \cup {<<messageType, messageVersion>>} |->
                           IF p = <<messageType, messageVersion>> THEN handler
                           ELSE hist.byPair[p]]]

\* RegisterSchema(messageType, messageVersion, schema) returned, to a caller
\* that looks at the router next (keep) or not
NoteRegisterSchema(messageType, messageVersion, schema, keep) ==
  hist' = [hist EXCEPT
             !.overwritten = IF RegisterSchemaError(schema) = "nil" /\ ~Quiescent
                             THEN @ \cup {makeKey(messageType, messageVersion)}
                             ELSE @,
             !.lastReg = IF keep
                         THEN [op |-> "RegisterSchema",
                               key |-> makeKey(messageType, messageVersion),
                               err |-> RegisterSchemaError(schema),
                               before |-> Registry]
                         ELSE NoReg]

\* Use returned
NoteUse == hist' = [hist EXCEPT !.lastReg = NoReg]

\* a Route call starts: it finds the registry as it is now
NoteStart == hist' = [hist EXCEPT !.start = Registry, !.overwritten = {}, !.lastReg = NoReg]

\* the Route call is over
NoteEnd == hist' = [hist EXCEPT !.start = NoRegistry, !.overwritten = {}, !.lastReg = NoReg]

(***************************************************************************)
(* The router's specification: registrations between Route calls.          *)
(***************************************************************************)
InitRouter ==
  /\ handlers = <<>>
  /\ schemas = <<>>
  /\ middlewares = <<>>
  /\ routingPolicy \in RoutingPolicies
  /\ failurePolicy \in FailurePolicies
  /\ pc = "idle"
  /\ state = NewRouteState(NoRaw)
  /\ chain = <<>>
  /\ depth = 0
  /\ ret = NoReturn
  /\ routed = ZeroResult
  /\ exit = "none"
  /\ trace = <<>>

InitConsumer ==
  /\ cpc = "idle"
  /\ ctxCancelled = FALSE
  /\ batch = <<>>
  /\ workers = <<>>
  /\ wg = 0
  /\ clog = <<>>

\* no policy is being called on its own
NoCall ==
  [op |-> "none", stage |-> 0, policy |-> "", kind |-> "None", inner |-> NilErr,
   current |-> Result(FALSE, NilErr), out1 |-> Result(FALSE, NilErr),
   out2 |-> Result(FALSE, NilErr), envelope |-> NoEnvelope, available |-> {}, key |-> ""]

InitPolicyCall == pcall = NoCall

InitHistory == hist = NoHist

Init == InitRouter /\ InitConsumer /\ InitPolicyCall /\ InitHistory

MwLists == {<<>>} \cup {<<m>> : m \in Middlewares} \cup {<<m, n>> : m \in Middlewares, n \in Middlewares}

Next ==
  \/ \E t \in Types, v \in Versions, h \in Handlers :
       /\ Quiescent /\ Register(t, v, h) /\ NoteRegister(t, v, h, TRUE)
       /\ UNCHANGED callvars /\ UNCHANGED <<cvars, pvars>>
  \/ \E t \in Types, v \in Versions, s \in SchemaStrings :
       /\ Quiescent /\ RegisterSchema(t, v, s) /\ NoteRegisterSchema(t, v, s, TRUE)
       /\ UNCHANGED callvars /\ UNCHANGED <<cvars, pvars>>
  \/ \E mw \in MwLists :
       Quiescent /\ Use(mw) /\ NoteUse /\ UNCHANGED callvars /\ UNCHANGED <<cvars, pvars>>
  \/ \E rawMessage \in RawMessages :
       RouteBegin(rawMessage) /\ NoteStart /\ UNCHANGED <<cvars, pvars>>
  \/ MwEnter /\ UNCHANGED <<cvars, pvars, hvars>>
  \/ MwResume /\ UNCHANGED <<cvars, pvars, hvars>>
  \/ CoreEnvelope /\ UNCHANGED <<cvars, pvars, hvars>>
  \/ CoreSelect /\ UNCHANGED <<cvars, pvars, hvars>>
  \/ CoreResolve /\ UNCHANGED <<cvars, pvars, hvars>>
  \/ CoreInvoke /\ UNCHANGED <<cvars, pvars, hvars>>
  \/ RouteRecover /\ UNCHANGED <<cvars, pvars, hvars>>
  \/ RouteFinish /\ UNCHANGED <<cvars, pvars, hvars>>
  \/ RouteReturn /\ NoteEnd /\ UNCHANGED <<cvars, pvars>>

Spec == Init /\ [][Next]_vars

(***************************************************************************)
(* The same router built with a routing policy of the user's.              *)
(***************************************************************************)
InitCustomRouting ==
  /\ handlers = <<>>
  /\ schemas = <<>>
  /\ middlewares = <<>>
  /\ routingPolicy \in CustomRoutingPolicies
  /\ failurePolicy \in FailurePolicies
  /\ pc = "idle"
  /\ state = NewRouteState(NoRaw)
  /\ chain = <<>>
  /\ depth = 0
  /\ ret = NoReturn
  /\ routed = ZeroResult
  /\ exit = "none"
  /\ trace = <<>>
  /\ InitConsumer
  /\ InitPolicyCall
  /\ InitHistory

CustomRoutingSpec == InitCustomRouting /\ [][Next]_vars

(***************************************************************************)
(* Contexts.  A context is known by the context it was derived from and    *)
(* by whether it carries a deadline; "polling" is the context handed to    *)
(* Start.  CtxErr is ctx.Err() when the call that uses the context looks   *)
(* at it: cancellation of the polling context reaches exactly the contexts *)
(* derived from it, a deadline may or may not have passed (expired).       *)
(***************************************************************************)
WithTimeout(parent) == [parent |-> parent, deadline |-> TRUE]
NoCtx == [parent |-> "none", deadline |-> FALSE]

CtxErr(c, expired) ==
  IF c.parent = "polling" /\ ctxCancelled THEN "Canceled"
  ELSE IF c.deadline /\ expired THEN "DeadlineExceeded"
  ELSE "nil"

\* the processing context of a worker
WorkerContext_FromPolling == WithTimeout("polling")
WorkerContext == WithTimeout("Background")

\* the context of a worker's DeleteMessage call
DeleteContext_FromPolling == WithTimeout("polling")
DeleteContext == WithTimeout("Background")

(***************************************************************************)
(* Messages of a ReceiveMessage output and the workers launched for them.  *)
(***************************************************************************)
Bodies == {"nil", "present"}

Min(a, b) == IF a < b THEN a ELSE b

\* what Route hands back to processMessage: the HandlerResult of its RoutedResult
NoRouted == [ShouldDelete |-> FALSE, Error |-> NilErr, returned |-> FALSE]
Returned(hr) == [ShouldDelete |-> hr.ShouldDelete, Error |-> hr.Error, returned |-> TRUE]
RouteReturns ==
  {Returned(Result(sd, e)) : sd \in BOOLEAN, e \in {NilErr, PlainErr("handler failed")}}

Worker(m, late) ==
  [receipt |-> m.receipt, body |-> m.body, pc |-> "launched",
   index |-> m.index, of |-> m.of,  \* the message is output.Messages[index-1] of len = of
   lateLaunch |-> late,      \* launched when the polling context was already cancelled
   msgCtx |-> NoCtx, routed |-> NoRouted,
   routeCanceled |-> FALSE,  \* the Route call saw msgCtx cancelled
   lateRoute |-> FALSE,      \* Route returned when the polling context was cancelled
   panicked |-> FALSE,       \* processMessage recovered a panic
   routes |-> 0,             \* the Router.Route calls this worker made
   calls |-> <<>>]           \* the queue calls this worker made

CEvent(e) == [ev |-> e, receipt |-> 0]
LaunchEvent(m) == [ev |-> "launch", receipt |-> m.receipt]

Receives == Len(SelectSeq(clog, LAMBDA e : e.ev = "receive"))

(***************************************************************************)
(* Consumer.Start (consumer.go 51-101).                                    *)
(***************************************************************************)
\* Start is called
StartBegin ==
  /\ cpc = "idle"
  /\ cpc' = "check"
  /\ UNCHANGED <<ctxCancelled, batch, workers, wg, clog>>

\* the caller cancels the polling context (at any moment)
Cancel ==
  /\ ~ctxCancelled
  /\ ctxCancelled' = TRUE
  /\ clog' = Append(clog, CEvent("cancel"))
  /\ UNCHANGED <<cpc, batch, workers, wg>>

\* line 58: ctx.Err() != nil
PollCheck_Skipped(cancelled) == FALSE
PollCheck(cancelled) == cancelled

\* top of the loop, lines 56-61
LoopCheck ==
  /\ cpc = "check"
  /\ IF PollCheck(ctxCancelled)
       THEN /\ cpc' = "wait"
            /\ clog' = Append(clog, CEvent("observed"))
       ELSE /\ cpc' = "receive"
            /\ clog' = clog
  /\ UNCHANGED <<ctxCancelled, batch, workers, wg>>

\* lines 63-67: the ReceiveMessage call is issued
ReceiveCall ==
  /\ cpc = "receive"
  /\ Receives < MaxReceives
  /\ cpc' = "receiving"
  /\ clog' = Append(clog, CEvent("receive"))
  /\ UNCHANGED <<ctxCancelled, batch, workers, wg>>

\* the errors ReceiveMessage returns: one wrapping context.Canceled (only
\* when the context it was given is cancelled), or any other
ReceiveErrors(cancelled) == IF cancelled THEN {"Canceled", "other"} ELSE {"other"}

\* every receive error taken for the shutdown signal
IsContextCanceled_AnyError(err) == TRUE

\* line 70: errors.Is(err, context.Canceled)
IsContextCanceled(err) == err = "Canceled"

\* an output as long as the service likes
OutputSizes_Unlimited(room) == 1..room

\* lines 63-67, MaxNumberOfMessages: maxMessages: a non-empty output holds at
\* most maxMessages messages (and no more than the model has room for)
OutputSizes(room) == 1..Min(maxMessages, room)

\* lines 69-83: the call returns an error or an output of at most
\* maxMessages messages; limit is the number of workers the model launches
ReceiveReturnUpTo(limit) ==
  /\ cpc = "receiving"
  /\ \/ \E err \in ReceiveErrors(ctxCancelled) :
          IF IsContextCanceled(err)
            THEN \* break
                 /\ cpc' = "wait"
                 /\ clog' = Append(clog, CEvent("observed"))
                 /\ batch' = batch
            ELSE \* log, then time.Sleep(retrySleep)
                 /\ cpc' = "backoff"
                 /\ UNCHANGED <<clog, batch>>
     \/ \* len(output.Messages) == 0: continue
        /\ cpc' = "check"
        /\ UNCHANGED <<clog, batch>>
     \/ \E n \in OutputSizes(limit - Len(workers)) :
          \E bodies \in [1..n -> Bodies] :
            /\ batch' = [k \in 1..n |->
                           [receipt |-> Len(workers) + k, body |-> bodies[k],
                            index |-> k, of |-> n]]
            /\ cpc' = "launch"
            /\ clog' = clog
  /\ UNCHANGED <<ctxCancelled, workers, wg>>

ReceiveReturn == ReceiveReturnUpTo(MaxWorkers)

\* lines 75-76: the sleep is over: continue
Backoff ==
  /\ cpc = "backoff"
  /\ cpc' = "check"
  /\ UNCHANGED <<ctxCancelled, batch, workers, wg, clog>>

\* a range loop that passes over every second message
Launch_SkipsOne ==
  /\ cpc = "launch"
  /\ batch # <<>>
  /\ wg' = wg + 1
  /\ workers' = Append(workers, Worker(Head(batch), ctxCancelled))
  /\ clog' = Append(clog, LaunchEvent(Head(batch)))
  /\ batch' = IF Len(batch) >= 2 THEN Tail(Tail(batch)) ELSE <<>>
  /\ cpc' = IF Len(batch) <= 2 THEN "check" ELSE "launch"
  /\ UNCHANGED ctxCancelled

\* lines 85-95, one turn of the range loop: wg.Add(1); go func(m)
Launch ==
  /\ cpc = "launch"
  /\ batch # <<>>
  /\ wg' = wg + 1
  /\ workers' = Append(workers, Worker(Head(batch), ctxCancelled))
  /\ clog' = Append(clog, LaunchEvent(Head(batch)))
  /\ batch' = Tail(batch)
  /\ cpc' = IF Tail(batch) = <<>> THEN "check" ELSE "launch"
  /\ UNCHANGED ctxCancelled

\* line 99: wg.Wait() returns when the counter is zero
WaitDone_NoWait(counter) == TRUE
WaitDone(counter) == counter = 0

\* lines 98-101
StartWait ==
  /\ cpc = "wait"
  /\ WaitDone(wg)
  /\ cpc' = "returned"
  /\ UNCHANGED <<ctxCancelled, batch, workers, wg, clog>>

(***************************************************************************)
(* A worker goroutine (consumer.go 89-94) and processMessage (104-153).    *)
(***************************************************************************)
\* the goroutine ends without telling the WaitGroup
Finish_NoDone(i, w) ==
  /\ workers' = [workers EXCEPT ![i] = [w EXCEPT !.pc = "finished"]]
  /\ wg' = wg

\* the goroutine ends: defer wg.Done()
Finish(i, w) ==
  /\ workers' = [workers EXCEPT ![i] = [w EXCEPT !.pc = "finished"]]
  /\ wg' = wg - 1

\* the nil check left out
BodyIsNil_Unchecked(body) == FALSE

\* line 111: msg.Body == nil
BodyIsNil(body) == body = "nil"

\* lines 91-116: the goroutine starts, derives msgCtx and enters
\* processMessage, which returns at once on a nil body and calls Route
\* otherwise
WorkerStart(i) ==
  /\ workers[i].pc = "launched"
  /\ LET w == [workers[i] EXCEPT !.msgCtx = WorkerContext]
     IN IF BodyIsNil(w.body)
          THEN Finish(i, w)
          ELSE /\ workers' = [workers EXCEPT ![i] = [w EXCEPT !.pc = "routing",
                                                             !.routes = @ + 1]]
               /\ wg' = wg
  /\ UNCHANGED <<cpc, ctxCancelled, batch, clog>>

\* line 135
ShouldIssueDelete_WhenNoError(hr) == hr.Error = NilErr
ShouldIssueDelete(hr) == hr.ShouldDelete

\* lines 116-135, 150-152: Route returns (or panics, which the deferred
\* recover of processMessage absorbs); no delete is due
WorkerRouted(i) ==
  /\ workers[i].pc = "routing"
  /\ \E expired \in BOOLEAN :
       LET seen == [workers[i] EXCEPT
                      !.routeCanceled = (CtxErr(workers[i].msgCtx, expired) = "Canceled"),
                      !.lateRoute = ctxCancelled]
       IN \/ Finish(i, [seen EXCEPT !.panicked = TRUE])
          \/ \E hr \in RouteReturns :
               LET w == [seen EXCEPT !.routed = hr]
               IN IF ShouldIssueDelete(hr)
                    THEN /\ workers' = [workers EXCEPT ![i] = [w EXCEPT !.pc = "deleting"]]
                         /\ wg' = wg
                    ELSE Finish(i, w)
  /\ UNCHANGED <<cpc, ctxCancelled, batch, clog>>

\* a failed delete tried again
RetryDelete_OnError(ok) == ~ok

\* lines 145-149: the outcome of DeleteMessage is logged and processMessage
\* returns; no branch issues the call again
RetryDelete(ok) == FALSE

\* lines 136-149: DeleteMessage under its own context; the call fails when
\* that context is done and may fail at the service
WorkerDelete(i) ==
  /\ workers[i].pc = "deleting"
  /\ \E expired \in BOOLEAN, ok \in BOOLEAN :
       LET e == CtxErr(DeleteContext, expired)
           call == [op |-> "DeleteMessage", receipt |-> workers[i].receipt,
                    canceled |-> (e = "Canceled"), ok |-> ok /\ e = "nil"]
           w == [workers[i] EXCEPT !.calls = Append(@, call)]
       IN IF RetryDelete(call.ok)
            THEN /\ workers' = [workers EXCEPT ![i] = w]
                 /\ wg' = wg
            ELSE Finish(i, w)
  /\ UNCHANGED <<cpc, ctxCancelled, batch, clog>>

\* the panic of DeleteMessage ends the goroutine without wg.Done()
WorkerDeletePanics_NoDone(i) ==
  /\ workers[i].pc = "deleting"
  /\ LET call == [op |-> "DeleteMessage", receipt |-> workers[i].receipt,
                  canceled |-> FALSE, ok |-> FALSE]
     IN /\ workers' = [workers EXCEPT ![i] = [@ EXCEPT !.calls = Append(@, call),
                                                        !.panicked = TRUE,
                                                        !.pc = "finished"]]
        /\ wg' = wg
  /\ UNCHANGED <<cpc, ctxCancelled, batch, clog>>

\* lines 104-109, 139-142: the DeleteMessage call panics; the deferred
\* recover of processMessage absorbs the panic, processMessage returns and
\* the deferred wg.Done() of the goroutine runs
WorkerDeletePanics(i) ==
  /\ workers[i].pc = "deleting"
  /\ LET call == [op |-> "DeleteMessage", receipt |-> workers[i].receipt,
                  canceled |-> FALSE, ok |-> FALSE]
     IN Finish(i, [workers[i] EXCEPT !.calls = Append(@, call), !.panicked = TRUE])
  /\ UNCHANGED <<cpc, ctxCancelled, batch, clog>>

(***************************************************************************)
(* The consumer with a Router as NewRouter leaves it.                      *)
(***************************************************************************)
ConsumerInit ==
  /\ handlers = << >>
  /\ schemas = << >>
  /\ middlewares = << >>
  /\ routingPolicy = "nil"
  /\ failurePolicy = "ImmediateDeletePolicy"
  /\ pc = "idle"
  /\ state = NewRouteState(NoRaw)
  /\ chain = << >>
  /\ depth = 0
  /\ ret = NoReturn
  /\ routed = ZeroResult
  /\ exit = "none"
  /\ trace = << >>
  /\ InitConsumer
  /\ InitPolicyCall
  /\ InitHistory

ConsumerNext ==
  \/ StartBegin /\ UNCHANGED <<rvars, callvars, pvars, hvars>>
  \/ Cancel /\ UNCHANGED <<rvars, callvars, pvars, hvars>>
  \/ LoopCheck /\ UNCHANGED <<rvars, callvars, pvars, hvars>>
  \/ ReceiveCall /\ UNCHANGED <<rvars, callvars, pvars, hvars>>
  \/ ReceiveReturn /\ UNCHANGED <<rvars, callvars, pvars, hvars>>
  \/ Backoff /\ UNCHANGED <<rvars, callvars, pvars, hvars>>
  \/ Launch /\ UNCHANGED <<rvars, callvars, pvars, hvars>>
  \/ StartWait /\ UNCHANGED <<rvars, callvars, pvars, hvars>>
  \/ \E i \in DOMAIN workers : WorkerStart(i) /\ UNCHANGED <<rvars, callvars, pvars, hvars>>
  \/ \E i \in DOMAIN workers : WorkerRouted(i) /\ UNCHANGED <<rvars, callvars, pvars, hvars>>
  \/ \E i \in DOMAIN workers : WorkerDelete(i) /\ UNCHANGED <<rvars, callvars, pvars, hvars>>

ConsumerSpec == ConsumerInit /\ [][ConsumerNext]_vars

\* a step of the consumer: the router is not involved
ConsumerStep(A) == A /\ UNCHANGED <<rvars, callvars, pvars, hvars>>

(***************************************************************************)
(* The consumer with a queue client whose DeleteMessage may panic as well  *)
(* as fail, routing to handlers that report no error.                      *)
(***************************************************************************)
\* no Route call returned an error
HandlersSucceed == \A i \in DOMAIN workers : workers[i].routed.Error = NilErr

FaultyClientNext ==
  \/ StartBegin /\ UNCHANGED <<rvars, callvars, pvars, hvars>>
  \/ Cancel /\ UNCHANGED <<rvars, callvars, pvars, hvars>>
  \/ LoopCheck /\ UNCHANGED <<rvars, callvars, pvars, hvars>>
  \/ ReceiveCall /\ UNCHANGED <<rvars, callvars, pvars, hvars>>
  \/ ReceiveReturn /\ UNCHANGED <<rvars, callvars, pvars, hvars>>
  \/ Backoff /\ UNCHANGED <<rvars, callvars, pvars, hvars>>
  \/ Launch /\ UNCHANGED <<rvars, callvars, pvars, hvars>>
  \/ StartWait /\ UNCHANGED <<rvars, callvars, pvars, hvars>>
  \/ \E i \in DOMAIN workers : WorkerStart(i) /\ UNCHANGED <<rvars, callvars, pvars, hvars>>
  \/ \E i \in DOMAIN workers :
       WorkerRouted(i) /\ HandlersSucceed' /\ UNCHANGED <<rvars, callvars, pvars, hvars>>
  \/ \E i \in DOMAIN workers : WorkerDelete(i) /\ UNCHANGED <<rvars, callvars, pvars, hvars>>
  \/ \E i \in DOMAIN workers :
       WorkerDeletePanics(i) /\ UNCHANGED <<rvars, callvars, pvars, hvars>>

FaultyClientSpec == ConsumerInit /\ [][FaultyClientNext]_vars

(***************************************************************************)
(* The consumer polling faster than its workers run: the messages have a   *)
(* body, the handlers ask for no delete and report no error, and the       *)
(* goroutines run one at a time, in launch order.                          *)
(***************************************************************************)
\* every message of the output has a body
BodiesPresent == \A k \in DOMAIN batch : batch[k].body = "present"

\* every Route call returned (false, nil)
HandlersRetry ==
  \A i \in DOMAIN workers :
    /\ ~workers[i].panicked
    /\ workers[i].routed \in {NoRouted, Returned(Result(FALSE, NilErr))}

\* worker i is the first that has not finished
NextToRun(i) == \A j \in 1..(i - 1) : workers[j].pc = "finished"

SlowWorkersNext ==
  \/ ConsumerStep(StartBegin)
  \/ ConsumerStep(Cancel)
  \/ ConsumerStep(LoopCheck)
  \/ ConsumerStep(ReceiveCall)
  \/ ConsumerStep(ReceiveReturnUpTo(MaxInFlight)) /\ BodiesPresent'
  \/ ConsumerStep(Backoff)
  \/ ConsumerStep(Launch)
  \/ ConsumerStep(StartWait)
  \/ \E i \in DOMAIN workers : NextToRun(i) /\ ConsumerStep(WorkerStart(i))
  \/ \E i \in DOMAIN workers : NextToRun(i) /\ ConsumerStep(WorkerRouted(i)) /\ HandlersRetry'

SlowWorkersSpec == ConsumerInit /\ [][SlowWorkersNext]_vars

(***************************************************************************)
(* What the trace of a Route call says.                                    *)
(***************************************************************************)
Count(ev) == Cardinality({i \in 1..Len(trace) : trace[i].ev = ev})

\* the slots of the middleware events ev, in the order they happened
Slots(ev) ==
  LET s == SelectSeq(trace, LAMBDA e : e.ev = ev)
  IN [i \in 1..Len(s) |-> s[i].slot]

\* every middleware that ran called next exactly once and returned, and the
\* handler did not panic
ChainWellBehaved ==
  \A i \in 1..Len(trace) : trace[i].ev \notin {"skip", "mwPanic", "again", "panicked"}

\* the core run an entry of the trace belongs to starts at the last "core" entry before it
CoreStart(i) ==
  LET before == {j \in 1..i : trace[j].ev = "core"}
  IN CHOOSE j \in before : \A k \in before : k <= j

\* the failure kind the call ended on ("None": it ended without failure)
EndKind ==
  CASE exit = "panic" -> "HandlerPanic"
    [] exit = "middlewareError" -> "MiddlewareError"
    [] OTHER -> ret.kind

(***************************************************************************)
(* C1.  Route returns a RoutedResult to its caller and never lets a panic  *)
(* propagate, whatever handler and middlewares are registered; a handler   *)
(* panic ends on the HandlerPanic path with the policy's delete decision.  *)
(***************************************************************************)
C1_RouteNeverPropagatesPanic ==
  /\ pc # "escaped"
  /\ (pc = "done" /\ Count("panicked") > 0) =>
        /\ exit = "panic"
        /\ routed.HandlerResult.ShouldDelete =
             Decide(failurePolicy, "HandlerPanic", PlainErr("ErrPanic"),
                    Result(FALSE, PlainErr("ErrPanic"))).ShouldDelete

(***************************************************************************)
(* C2.  During one Route call the failure policy's Decide is invoked at    *)
(* most once, for every handler outcome and middleware behaviour.          *)
(***************************************************************************)
C2_PolicyDecidesAtMostOnce == Count("decide") <= 1

(***************************************************************************)
(* C7.  As claimed: in every finished Route call every registered          *)
(* middleware ran exactly once, the pre-call phases in registration order  *)
(* and the post-call phases in reverse registration order.                 *)
(***************************************************************************)
RegistrationOrder == [i \in 1..Len(middlewares) |-> i]
ReverseRegistrationOrder == [i \in 1..Len(middlewares) |-> Len(middlewares) + 1 - i]

C7_EveryMiddlewareRunsOnce ==
  pc = "done" => Slots("pre") = RegistrationOrder /\ Slots("post") = ReverseRegistrationOrder

(***************************************************************************)
(* C7, amended.  In every finished Route call in which each middleware     *)
(* that runs calls next exactly once and returns, and nothing panics,      *)
(* every registered middleware ran exactly once, whether or not a handler  *)
(* exists and whatever failure the core decided; the pre-call phases ran   *)
(* in registration order, the post-call phases in reverse order.           *)
(***************************************************************************)
C7_WellBehavedMiddlewaresRunOnce ==
  (pc = "done" /\ ChainWellBehaved) =>
     Slots("pre") = RegistrationOrder /\ Slots("post") = ReverseRegistrationOrder

\* two middlewares around an envelope that fails its schema
C7_Witness ==
  /\ pc = "done"
  /\ ChainWellBehaved
  /\ Len(middlewares) = 2
  /\ exit = "coreFailure"
  /\ ret.kind = "EnvelopeSchema"

(***************************************************************************)
(* C8.  As claimed: within one Route call the handler is invoked at most   *)
(* once, for every middleware chain.                                       *)
(***************************************************************************)
C8_HandlerAtMostOncePerRoute == Count("handler") <= 1

\* the handler invocation at trace[i] came after its core run validated and
\* parsed the envelope, selected and resolved a registered key, and (when the
\* key has a schema) validated the payload, and is the only one of that run
InvokedAfterValidation(i) ==
  LET c == CoreStart(i)
      at(ev) == {k \in c..i : trace[k].ev = ev}
      key == state.HandlerKey
  IN /\ at("handler") = {i}
     /\ \E a \in at("envelopeValid"), b \in at("envelopeParsed"),
           d \in at("selected"), e \in at("resolved") :
           /\ a < b /\ b < d /\ d < e /\ e < i
           /\ key \in DOMAIN schemas => \E f \in at("payloadValid") : d < f /\ f < e
     /\ ValidateEnvelope(state.Raw)
     /\ UnmarshalOK(state.Raw)
     /\ key \in DOMAIN handlers
     /\ key \in DOMAIN schemas => ValidatePayload(schemas[key], state.Envelope[1].Message)

(***************************************************************************)
(* C8, amended.  Each run of the core pipeline invokes the handler at most *)
(* once, and only after envelope schema validation, envelope parse,        *)
(* handler resolution and (when a schema is registered for the selected    *)
(* key) payload validation have succeeded; so within one Route call the    *)
(* handler is invoked at most once when no middleware calls next more than *)
(* once.                                                                   *)
(***************************************************************************)
C8_HandlerOncePerCoreRun ==
  /\ Count("again") = 0 => Count("handler") <= 1
  /\ \A i \in 1..Len(trace) : trace[i].ev = "handler" => InvokedAfterValidation(i)

\* a handler invoked for a key that has a schema, below a middleware
C8_Witness ==
  /\ pc = "done"
  /\ Count("handler") = 1
  /\ Count("payloadValid") = 1
  /\ Len(chain) >= 1

Finished(w) == w.pc = "finished"
DeleteCalls(w) == SelectSeq(w.calls, LAMBDA c : c.op = "DeleteMessage")
Before(i, j) == i < j
After(ev) == {j \in DOMAIN clog : \E i \in DOMAIN clog : clog[i].ev = ev /\ Before(i, j)}

\* C3: a worker issues DeleteMessage, once and for its own message's receipt,
\* if and only if Route returned a RoutedResult whose HandlerResult.ShouldDelete
\* is true; otherwise (ShouldDelete false with or without an error, no result
\* at all) it makes no queue call.
C3_DeleteIffShouldDelete ==
  \A i \in DOMAIN workers :
    LET w == workers[i]
    IN /\ \A k \in DOMAIN w.calls :
            /\ w.calls[k].op = "DeleteMessage"
            /\ w.calls[k].receipt = w.receipt
       /\ Len(w.calls) <= 1
       /\ w.calls # <<>> => w.routed.returned /\ w.routed.ShouldDelete
       /\ Finished(w) /\ w.routed.returned /\ w.routed.ShouldDelete
            => Len(DeleteCalls(w)) = 1

C3_Witness ==
  \E i, j \in DOMAIN workers :
    /\ Finished(workers[i]) /\ Finished(workers[j])
    /\ workers[i].routed.returned /\ workers[i].routed.ShouldDelete
    /\ workers[i].routed.Error # NilErr
    /\ Len(DeleteCalls(workers[i])) = 1
    /\ workers[j].routed.returned /\ ~workers[j].routed.ShouldDelete
    /\ workers[j].routed.Error = NilErr
    /\ workers[j].calls = <<>>

\* C4: when Start has returned, every worker it launched has finished.
C4_NoWorkerRunsAfterStartReturns ==
  cpc = "returned" => \A i \in DOMAIN workers : Finished(workers[i])

C4_Witness ==
  /\ cpc = "returned"
  /\ Len(workers) = MaxWorkers
  /\ \E i \in DOMAIN workers : ~workers[i].lateLaunch /\ workers[i].lateRoute
  /\ \A i \in DOMAIN workers : Finished(workers[i])

\* C5: the processing context and the delete context of a worker derive from
\* the background context, so no Route call and no DeleteMessage call of a
\* worker ever sees its context cancelled by the polling context, and a worker
\* whose Route result says ShouldDelete issues its delete also when the polling
\* context was cancelled while it was in flight.
C5_CancellationSparesWorkers ==
  \A i \in DOMAIN workers :
    LET w == workers[i]
    IN /\ w.pc # "launched" => w.msgCtx.parent = "Background"
       /\ ~w.routeCanceled
       /\ \A k \in DOMAIN w.calls : ~w.calls[k].canceled
       /\ Finished(w) /\ w.lateRoute /\ w.routed.returned /\ w.routed.ShouldDelete
            => Len(DeleteCalls(w)) = 1

C5_Witness ==
  \E i \in DOMAIN workers :
    /\ ~workers[i].lateLaunch
    /\ workers[i].lateRoute
    /\ Finished(workers[i])
    /\ workers[i].routed.ShouldDelete
    /\ Len(DeleteCalls(workers[i])) = 1
    /\ workers[i].calls[1].ok

\* C6 as stated: once the polling context is cancelled, Start issues no
\* receive call and launches no worker.
C6_NothingAfterCancellation ==
  \A j \in After("cancel") : clog[j].ev \notin {"receive", "launch"}

\* C6 as amended: once Start has observed the cancellation it issues no
\* receive call and launches no worker; between the cancellation and that
\* observation it issues at most one receive call and launches the workers of
\* at most one batch.
C6_NothingAfterCancellationObserved ==
  /\ \A j \in After("observed") : clog[j].ev \notin {"receive", "launch"}
  /\ Cardinality({j \in After("cancel") : clog[j].ev = "receive"}) <= 1
  /\ Cardinality({j \in After("cancel") : clog[j].ev = "launch"}) <= maxMessages
  /\ \A j \in After("cancel") :
       clog[j].ev = "launch" =>
         \A k \in After("cancel") : Before(j, k) => clog[k].ev # "receive"

C6_Witness ==
  /\ cpc = "returned"
  /\ \E i, j, k, l \in DOMAIN clog :
       /\ Before(i, j) /\ Before(j, k) /\ Before(k, l)
       /\ clog[i].ev = "cancel"
       /\ clog[j].ev = "receive"
       /\ clog[k].ev = "launch"
       /\ clog[l].ev = "observed"

(***************************************************************************)
(* The built-in policies called on their own: a failure policy is asked    *)
(* to decide and is then asked again about its own answer; the exact-match *)
(* routing policy is asked for a key.                                      *)
(***************************************************************************)
\* failure.Kind is an int: "Unknown" is a value outside the declared constants
KindInputs == FailureKinds \cup {"Unknown"}
ErrorInputs(s) == {NilErr, PlainErr(s)}

FailureCalls ==
  {[NoCall EXCEPT !.op = "failure", !.policy = p, !.kind = k, !.inner = i,
                  !.current = Result(sd, e)] :
     p \in FailurePolicies, k \in KindInputs, i \in ErrorInputs("inner"),
     sd \in BOOLEAN, e \in ErrorInputs("current")}

EnvelopeInputs ==
  {[NoEnvelope EXCEPT !.MessageType = t, !.MessageVersion = v] :
     t \in {"T", "U"}, v \in {"v1", "v2"}}
KeyInputs == {"T:v1", "T:v2", "U:v1", "T"}

RoutingCalls ==
  {[NoCall EXCEPT !.op = "routing", !.policy = "ExactMatchPolicy", !.envelope = e,
                  !.available = a] :
     e \in EnvelopeInputs, a \in SUBSET KeyInputs}

\* p.Decide(ctx, kind, inner, current)
FailureDecide ==
  /\ pcall.op = "failure"
  /\ pcall.stage = 0
  /\ pcall' = [pcall EXCEPT !.stage = 1,
                 !.out1 = Decide(pcall.policy, pcall.kind, pcall.inner, pcall.current)]

\* p.Decide(ctx, kind, inner, <the result of the first call>)
FailureDecideAgain ==
  /\ pcall.op = "failure"
  /\ pcall.stage = 1
  /\ pcall' = [pcall EXCEPT !.stage = 2,
                 !.out2 = Decide(pcall.policy, pcall.kind, pcall.inner, pcall.out1)]

\* ExactMatchPolicy{}.Decide(ctx, &envelope, available)
RoutingDecide ==
  /\ pcall.op = "routing"
  /\ pcall.stage = 0
  /\ pcall' = [pcall EXCEPT !.stage = 1,
                 !.key = ExactMatchPolicyDecide(pcall.envelope, pcall.available)]

PolicyInit ==
  /\ handlers = << >>
  /\ schemas = << >>
  /\ middlewares = << >>
  /\ routingPolicy = "nil"
  /\ failurePolicy = "ImmediateDeletePolicy"
  /\ pc = "idle"
  /\ state = NewRouteState(NoRaw)
  /\ chain = << >>
  /\ depth = 0
  /\ ret = NoReturn
  /\ routed = ZeroResult
  /\ exit = "none"
  /\ trace = << >>
  /\ InitConsumer
  /\ InitHistory
  /\ pcall \in FailureCalls \cup RoutingCalls

PolicyNext ==
  \/ FailureDecide /\ UNCHANGED <<rvars, callvars, cvars, hvars>>
  \/ FailureDecideAgain /\ UNCHANGED <<rvars, callvars, cvars, hvars>>
  \/ RoutingDecide /\ UNCHANGED <<rvars, callvars, cvars, hvars>>

PolicySpec == PolicyInit /\ [][PolicyNext]_vars

Decided(policy) == pcall.op = "failure" /\ pcall.policy = policy /\ pcall.stage >= 1

\* the error the claims expect of a failure decision
ExpectedError == IF pcall.current.Error # NilErr THEN pcall.current.Error ELSE pcall.inner

(***************************************************************************)
(* C11.  ImmediateDeletePolicy.Decide, for every declared kind, inner and  *)
(* current: None returns current unchanged; EnvelopeSchema, EnvelopeParse, *)
(* PayloadSchema, NoHandler and HandlerPanic return shouldDelete = true;   *)
(* HandlerError and MiddlewareError return current.shouldDelete; for every *)
(* kind but None the error is current.error when non-nil, else inner.      *)
(***************************************************************************)
C11_ImmediateDeleteReference ==
  (Decided("ImmediateDeletePolicy") /\ pcall.kind \in FailureKinds) =>
     /\ pcall.kind = "None" => pcall.out1 = pcall.current
     /\ pcall.kind \in {"EnvelopeSchema", "EnvelopeParse", "PayloadSchema", "NoHandler",
                        "HandlerPanic"} => pcall.out1.ShouldDelete
     /\ pcall.kind \in {"HandlerError", "MiddlewareError"} =>
          pcall.out1.ShouldDelete = pcall.current.ShouldDelete
     /\ pcall.kind # "None" => pcall.out1.Error = ExpectedError

\* a handler error on a result that asks for deletion and already has an error
C11_Witness ==
  /\ Decided("ImmediateDeletePolicy")
  /\ pcall.kind = "HandlerError"
  /\ pcall.current.ShouldDelete
  /\ pcall.current.Error # NilErr
  /\ pcall.inner # NilErr
  /\ pcall.out1 = pcall.current

(***************************************************************************)
(* C12.  SQSRedrivePolicy.Decide, for every kind, inner and current: None  *)
(* returns current unchanged; every other kind returns shouldDelete =      *)
(* false and the error current.error when non-nil, else inner.             *)
(***************************************************************************)
C12_RedriveReference ==
  Decided("SQSRedrivePolicy") =>
     IF pcall.kind = "None"
     THEN pcall.out1 = pcall.current
     ELSE /\ ~pcall.out1.ShouldDelete
          /\ pcall.out1.Error = ExpectedError

\* kind None on a result that asks for deletion: kept as it is
C12_Witness ==
  /\ Decided("SQSRedrivePolicy")
  /\ pcall.kind = "None"
  /\ pcall.current.ShouldDelete
  /\ pcall.inner # NilErr
  /\ pcall.current.Error = NilErr
  /\ pcall.out1 = pcall.current

(***************************************************************************)
(* C13.  Both built-in failure policies are idempotent: deciding again on  *)
(* the decided result, with the same kind and inner, changes nothing.      *)
(***************************************************************************)
C13_DecideIdempotent ==
  (pcall.op = "failure" /\ pcall.stage = 2) => pcall.out2 = pcall.out1

\* a second decision on a result the first one changed
C13_Witness ==
  /\ pcall.op = "failure"
  /\ pcall.stage = 2
  /\ pcall.out1 # pcall.current
  /\ pcall.inner # NilErr
  /\ pcall.current.Error # NilErr

(***************************************************************************)
(* C14.  ExactMatchPolicy.Decide returns messageType + ":" +               *)
(* messageVersion when that key is available and the empty key otherwise;  *)
(* it never returns a key that is not available.                           *)
(***************************************************************************)
C14_ExactMatchReference ==
  (pcall.op = "routing" /\ pcall.stage = 1) =>
     LET want == makeKey(pcall.envelope.MessageType, pcall.envelope.MessageVersion)
     IN /\ want \in pcall.available => pcall.key = want
        /\ want \notin pcall.available => pcall.key = ""
        /\ pcall.key # "" => pcall.key \in pcall.available

\* the wanted key is not available although others of its type are
C14_Witness ==
  /\ pcall.op = "routing"
  /\ pcall.stage = 1
  /\ pcall.envelope.MessageType = "T"
  /\ pcall.envelope.MessageVersion = "v2"
  /\ pcall.available = {"T:v1", "T"}
  /\ pcall.key = ""

(***************************************************************************)
(* Claims about the core pipeline and Route, checked under Spec.           *)
(***************************************************************************)
\* the policy was consulted with this kind during the call
PolicyConsulted(kind) == \E i \in 1..Len(trace) : trace[i].ev = "decide" /\ trace[i].arg = kind

\* what a Router without routing policy does with the parsed envelope: the key
\* is messageType:messageVersion whether registered or not
NoPolicyKey == makeKey(state.Envelope[1].MessageType, state.Envelope[1].MessageVersion)
NoPolicyStep ==
  ResolveStep(NoPolicyKey \in DOMAIN schemas,
              NoPolicyKey \in DOMAIN schemas
                /\ ValidatePayload(schemas[NoPolicyKey], state.Envelope[1].Message),
              NoPolicyKey \in DOMAIN handlers)

(***************************************************************************)
(* C15.  A Router with ExactMatchPolicy does what a Router without routing *)
(* policy does on the same registry and message: the failure policy is     *)
(* consulted with the same kind, the same handler (or none) is invoked,    *)
(* and the delete decision of a failure is the same.                       *)
(***************************************************************************)
C15_ExactMatchSameAsNoPolicy ==
  (pc = "done" /\ routingPolicy = "ExactMatchPolicy" /\ Count("selected") > 0) =>
     /\ NoPolicyStep = "PayloadSchema" => PolicyConsulted("PayloadSchema") /\ ~PolicyConsulted("NoHandler")
     /\ NoPolicyStep = "NoHandler" => PolicyConsulted("NoHandler") /\ ~PolicyConsulted("PayloadSchema")
     /\ NoPolicyStep # "invoke" => Count("handler") = 0
     /\ NoPolicyStep = "invoke" =>
          \E i \in 1..Len(trace) :
            trace[i].ev = "handler" /\ trace[i].arg = handlers[NoPolicyKey]
     /\ (NoPolicyStep # "invoke" /\ ChainWellBehaved) =>
          routed.HandlerResult.ShouldDelete =
            Decide(failurePolicy, NoPolicyStep, PlainErr("e"),
                   Result(FALSE, PlainErr("e"))).ShouldDelete

(***************************************************************************)
(* C16.  Payload validation comes before the handler-existence check: for  *)
(* a selected key that has a schema but no handler, an invalid payload     *)
(* makes the core consult the policy with PayloadSchema (not NoHandler),   *)
(* and a valid payload is validated and then fails with NoHandler.         *)
(***************************************************************************)
C16_PayloadCheckedBeforeHandler ==
  \A i \in 1..Len(trace) :
    (/\ trace[i].ev = "selected"
     /\ i < Len(trace)
     /\ trace[i].arg \in DOMAIN schemas
     /\ trace[i].arg \notin DOMAIN handlers) =>
       IF ValidatePayload(schemas[trace[i].arg], state.Envelope[1].Message)
       THEN /\ i + 2 <= Len(trace)
            /\ trace[i + 1] = Event("payloadValid", trace[i].arg)
            /\ trace[i + 2] = Event("decide", "NoHandler")
       ELSE trace[i + 1] = Event("decide", "PayloadSchema")

\* a schema without handler and a payload that lacks a required member
C16_Witness ==
  /\ pc = "done"
  /\ exit = "coreFailure"
  /\ state.HandlerKey \in DOMAIN schemas
  /\ state.HandlerKey \notin DOMAIN handlers
  /\ PolicyConsulted("PayloadSchema")
  /\ ~PolicyConsulted("NoHandler")

\* the call returned what the handler's core run produced: the last run of the
\* core ended with the handler returning without error, no middleware cut a
\* later call short, and nothing panicked
SuccessPath ==
  /\ pc = "done"
  /\ exit # "panic"
  /\ Count("core") > 0
  /\ LET c == CoreStart(Len(trace))
     IN /\ \E i \in c..Len(trace) :
             trace[i].ev = "returned" /\ trace[i].arg \in {"delete", "retry"}
        /\ \A i \in c..Len(trace) : trace[i].ev # "skip"

RouteConsults ==
  Cardinality({i \in 1..Len(trace) : trace[i] = Event("decide", "MiddlewareError")})

(***************************************************************************)
(* C18.  After the chain returns, Route consults the failure policy zero   *)
(* times when the returned error is or wraps the tagged core failure, and  *)
(* returns the chain's result as it is; it consults it exactly once, with  *)
(* MiddlewareError, when the returned error is any other non-nil error.    *)
(***************************************************************************)
C18_RouteConsultsOnlyForUntaggedErrors ==
  (pc = "done" /\ exit # "panic") =>
     /\ (ret.err # NilErr /\ ret.err.tagged) =>
          /\ exit = "coreFailure"
          /\ RouteConsults = 0
          /\ routed = ret.rr
     /\ (ret.err # NilErr /\ ~ret.err.tagged) =>
          /\ exit = "middlewareError"
          /\ RouteConsults = 1
          /\ trace[Len(trace)] = Event("decide", "MiddlewareError")
          /\ routed = Apply(ret.rr, Decide(failurePolicy, "MiddlewareError", ret.err,
                                           ret.rr.HandlerResult))
     /\ ret.err = NilErr => RouteConsults = 0 /\ routed = ret.rr

\* a middleware wrapped the tagged error of a core failure
C18_Witness ==
  /\ pc = "done"
  /\ exit = "coreFailure"
  /\ ret.err.tagged
  /\ ret.err.sentinel = "mw wrap"
  /\ ret.err.fk = "NoHandler"
  /\ RouteConsults = 0
  /\ PolicyConsulted("NoHandler")

(***************************************************************************)
(* C19.  With ImmediateDeletePolicy, when the chain returns an untagged    *)
(* error the final result keeps the shouldDelete of the result the chain   *)
(* returned, and its error is non-nil: the error already in that result    *)
(* if there is one, otherwise the middleware's error.                      *)
(***************************************************************************)
C19_MiddlewareErrorKeepsDeleteDecision ==
  (pc = "done" /\ exit = "middlewareError" /\ failurePolicy = "ImmediateDeletePolicy") =>
     /\ routed.HandlerResult.ShouldDelete = ret.rr.HandlerResult.ShouldDelete
     /\ routed.HandlerResult.Error # NilErr
     /\ routed.HandlerResult.Error =
          IF ret.rr.HandlerResult.Error # NilErr THEN ret.rr.HandlerResult.Error ELSE ret.err
     /\ [routed EXCEPT !.HandlerResult = ret.rr.HandlerResult] = ret.rr

\* the handler asked for deletion without error, then a middleware failed
C19_Witness ==
  /\ pc = "done"
  /\ exit = "middlewareError"
  /\ failurePolicy = "ImmediateDeletePolicy"
  /\ Count("returned") = 1
  /\ ret.rr.HandlerResult = Result(TRUE, NilErr)
  /\ routed.HandlerResult = Result(TRUE, PlainErr("mw error"))

(***************************************************************************)
(* C20.  When a panic escapes the chain, Route returns a result with the   *)
(* parsed envelope's messageType, messageVersion, messageId and timestamp  *)
(* if the envelope had been parsed before the panic and "unknown",         *)
(* "unknown", "", "" otherwise; its error wraps the panic; its             *)
(* shouldDelete is the policy's decision for HandlerPanic (true under      *)
(* ImmediateDeletePolicy); the MiddlewareError branch is not taken.        *)
(***************************************************************************)
C20_PanicResult ==
  (pc = "done" /\ exit = "panic") =>
     LET parsed == Count("envelopeParsed") > 0
     IN /\ routed.MessageType = (IF parsed THEN state.Raw.messageType ELSE "unknown")
        /\ routed.MessageVersion = (IF parsed THEN state.Raw.messageVersion ELSE "unknown")
        /\ routed.MessageID = (IF parsed THEN state.Raw.messageId ELSE "")
        /\ routed.Timestamp = (IF parsed THEN state.Raw.timestamp ELSE "")
        /\ routed.HandlerResult.Error = PlainErr("ErrPanic")
        /\ failurePolicy = "ImmediateDeletePolicy" => routed.HandlerResult.ShouldDelete
        /\ failurePolicy = "SQSRedrivePolicy" => ~routed.HandlerResult.ShouldDelete
        /\ trace[Len(trace)] = Event("decide", "HandlerPanic")
        /\ Count("mwPanic") + Count("panicked") = 1
        /\ RouteConsults = 0

\* a middleware panicked after the core had parsed the envelope and failed
C20_Witness ==
  /\ pc = "done"
  /\ exit = "panic"
  /\ failurePolicy = "ImmediateDeletePolicy"
  /\ Count("mwPanic") = 1
  /\ Count("envelopeParsed") = 1
  /\ PolicyConsulted("NoHandler")
  /\ routed.MessageVersion = "v2"
  /\ routed.HandlerResult.ShouldDelete

(***************************************************************************)
(* The router under concurrency.  Register, RegisterSchema and Use are     *)
(* called from other goroutines while a Route call is in progress: each    *)
(* holds r.mu for its whole effect, and Route reads the router under       *)
(* r.mu.RLock at its snapshot, at the routing decision and at the lookup,  *)
(* so a registration falls between two steps of the call.  Route calls     *)
(* write nothing the others read: one call in progress stands for each of  *)
(* the calls running in parallel.  The middlewares here are the            *)
(* well-behaved ones (next called once, no panic).                         *)
(***************************************************************************)
\* every middleware that ran called next exactly once and did not panic
NextCalledOnce ==
  \A i \in 1..Len(trace) : trace[i].ev \notin {"skip", "mwPanic", "again"}

\* the Register calls made: the key of the messages routed, and another key
ConcurrentRegistrations == {<<"T", "v1", "h1">>, <<"T", "v2", "h2">>}
\* the schema strings registered: two that compile, one that does not
ConcurrentSchemas ==
  SchemaStrings \cup {[compiles |-> TRUE, required |-> {"userId"}]}

ConcurrentNext ==
  \/ \E reg \in ConcurrentRegistrations :
       /\ Register(reg[1], reg[2], reg[3]) /\ NoteRegister(reg[1], reg[2], reg[3], FALSE)
       /\ UNCHANGED callvars /\ UNCHANGED <<cvars, pvars>>
  \/ \E t \in Types, v \in Versions, s \in ConcurrentSchemas :
       /\ RegisterSchema(t, v, s) /\ NoteRegisterSchema(t, v, s, FALSE)
       /\ UNCHANGED callvars /\ UNCHANGED <<cvars, pvars>>
  \/ \E mw \in MwLists :
       Use(mw) /\ NoteUse /\ UNCHANGED callvars /\ UNCHANGED <<cvars, pvars>>
  \/ \E rawMessage \in RawMessages :
       RouteBegin(rawMessage) /\ NoteStart /\ UNCHANGED <<cvars, pvars>>
  \/ MwEnter /\ NextCalledOnce' /\ UNCHANGED <<cvars, pvars, hvars>>
  \/ MwResume /\ NextCalledOnce' /\ UNCHANGED <<cvars, pvars, hvars>>
  \/ CoreEnvelope /\ UNCHANGED <<cvars, pvars, hvars>>
  \/ CoreSelect /\ UNCHANGED <<cvars, pvars, hvars>>
  \/ CoreResolve /\ UNCHANGED <<cvars, pvars, hvars>>
  \/ CoreInvoke /\ UNCHANGED <<cvars, pvars, hvars>>
  \/ RouteRecover /\ UNCHANGED <<cvars, pvars, hvars>>
  \/ RouteFinish /\ UNCHANGED <<cvars, pvars, hvars>>
  \/ RouteReturn /\ NoteEnd /\ UNCHANGED <<cvars, pvars>>

ConcurrentSpec == Init /\ [][ConcurrentNext]_vars

(***************************************************************************)
(* Claims about the registration calls.                                    *)
(***************************************************************************)
\* C23: RegisterSchema called with a schema string that does not compile
\* returns an "invalid schema" error and leaves the router as it was: the
\* schema map (a schema registered earlier under the same key included), the
\* handler map and the middleware list are those of before the call.
C23_RejectedSchemaChangesNothing ==
  (hist.lastReg.op = "RegisterSchema" /\ hist.lastReg.err = "ErrInvalidSchema")
    => Registry = hist.lastReg.before

\* a rejected RegisterSchema on a router that holds a schema under the same
\* key, a handler and a middleware
C23_Witness ==
  /\ hist.lastReg.op = "RegisterSchema"
  /\ hist.lastReg.err = "ErrInvalidSchema"
  /\ DOMAIN schemas # {}
  /\ DOMAIN handlers # {}
  /\ middlewares # <<>>

(***************************************************************************)
(* Claims about a router used by several goroutines.                       *)
(***************************************************************************)
\* a Route call is in progress and has wrapped the core
InCall == pc \notin {"idle", "escaped"}

\* C21: the middlewares a Route call runs are those of the list as the call
\* found it when it took its snapshot: a Use that returns while the call is
\* in progress adds nothing to its chain, and a call that starts after Use
\* returned runs the middlewares Use added.
C21_ChainIsSnapshot ==
  InCall =>
    /\ \A i \in 1..Len(trace) :
         trace[i].ev \in {"pre", "post"} =>
           /\ trace[i].slot \in 1..Len(hist.start.middlewares)
           /\ trace[i].arg = hist.start.middlewares[trace[i].slot]
    /\ pc = "done" => Slots("pre") = [i \in 1..Len(hist.start.middlewares) |-> i]

\* a call that started after one Use returned and during which another Use
\* returned has run the first middleware only
C21_Witness ==
  /\ pc = "done"
  /\ Len(hist.start.middlewares) = 1
  /\ Len(middlewares) = 2
  /\ Slots("pre") = <<1>>
  /\ Slots("post") = <<1>>

\* the core of the call in progress has looked the selected key up
Resolved == InCall /\ Count("selected") = 1 /\ pc # "resolve"

\* the entry of the trace for the routing decision
SelectedAt == CHOOSE i \in 1..Len(trace) : trace[i].ev = "selected"

\* C22: once RegisterSchema has returned success for a key, a Route call that
\* starts afterwards and selects that key validates the payload, against that
\* schema unless a later RegisterSchema stored another one under the key,
\* whatever Register, RegisterSchema and Use calls run during the call.
C22_RegisteredSchemaIsUsed ==
  (Resolved /\ state.HandlerKey \in DOMAIN hist.start.schemas) =>
    /\ state.SchemaExists
    /\ state.Schema # <<>>
    /\ state.HandlerKey \notin hist.overwritten =>
         state.Schema = <<hist.start.schemas[state.HandlerKey]>>
    /\ trace[SelectedAt + 1] =
         IF ValidatePayload(state.Schema[1], state.Envelope[1].Message)
         THEN Event("payloadValid", state.HandlerKey)
         ELSE Event("decide", "PayloadSchema")

\* a call that found a schema under its key when it started rejected a payload
\* that this schema rejects, while a Register and a Use ran during the call
C22_Witness ==
  /\ pc = "done"
  /\ state.HandlerKey \in DOMAIN hist.start.schemas
  /\ hist.overwritten = {}
  /\ handlers # hist.start.handlers
  /\ middlewares # hist.start.middlewares
  /\ Count("selected") = 1
  /\ trace[SelectedAt + 1] = Event("decide", "PayloadSchema")

\* the key of the message of the call in progress (its envelope was parsed)
MessageKey == makeKey(state.Envelope[1].MessageType, state.Envelope[1].MessageVersion)

\* C24: Route calls for a key that has a handler, running while Register is
\* called for another key, all invoke the handler that was registered and
\* return its result (success when it reports success); and once Register
\* has returned its key is in the handler map.
C24_RouteUnaffectedByRegister ==
  /\ hist.registered \subseteq DOMAIN handlers
  /\ ( /\ pc = "done"
       /\ Count("selected") = 1
       /\ MessageKey \in DOMAIN hist.start.handlers
       /\ trace[SelectedAt + 1] # Event("decide", "PayloadSchema") )
     => /\ state.HandlerKey = MessageKey
        /\ Count("handler") = 1
        /\ \A i \in 1..Len(trace) :
             trace[i].ev = "handler" => trace[i].arg = hist.start.handlers[MessageKey]
        /\ \A sd \in BOOLEAN :
             (Count("returned") = 1 /\ exit = "noError"
                /\ \E i \in 1..Len(trace) :
                     trace[i] = Event("returned", Verdict(Result(sd, NilErr))))
               => routed.HandlerResult = Result(sd, NilErr)

\* a call for "T:v1" during which Register("T", "v2", h2) returned has invoked
\* h1 and returned its success
C24_Witness ==
  /\ pc = "done"
  /\ exit = "noError"
  /\ Count("selected") = 1
  /\ state.HandlerKey = "T:v1"
  /\ DOMAIN hist.start.handlers = {"T:v1"}
  /\ DOMAIN handlers = {"T:v1", "T:v2"}
  /\ \E i \in 1..Len(trace) : trace[i] = Event("handler", "h1")
  /\ \E i \in 1..Len(trace) : trace[i] = Event("returned", "delete")
  /\ routed.HandlerResult = Result(TRUE, NilErr)

(***************************************************************************)
(* Later claims about the consumer.                                        *)
(***************************************************************************)
\* C26: a received message whose body is absent is neither routed nor
\* deleted: its worker calls neither Route nor DeleteMessage, and finishes.
C26_NilBodyNeitherRoutedNorDeleted ==
  \A i \in DOMAIN workers :
    workers[i].body = "nil" =>
      /\ workers[i].pc \in {"launched", "finished"}
      /\ ~workers[i].routed.returned
      /\ ~workers[i].panicked
      /\ workers[i].calls = <<>>
      /\ workers[i].msgCtx # NoCtx => workers[i].pc = "finished"

\* the worker of a message without body has finished, next to a worker that
\* routed and deleted its message
C26_Witness ==
  \E i \in DOMAIN workers, j \in DOMAIN workers :
    /\ workers[i].body = "nil"
    /\ workers[i].pc = "finished"
    /\ workers[i].calls = <<>>
    /\ workers[j].body = "present"
    /\ workers[j].pc = "finished"
    /\ workers[j].calls # <<>>

\* C27: a receive error that is not a context cancellation never ends the
\* polling loop: the loop sleeps, comes back to its check and, the polling
\* context still live, issues another receive; the loop leaves a receive call
\* for the wait only on a context-cancellation error, and launches no worker
\* then.
C27_ReceiveErrorHandling ==
  [][ /\ cpc = "backoff" => cpc' \in {"backoff", "check"} /\ Len(workers') = Len(workers)
      /\ (cpc = "check" /\ ~ctxCancelled /\ cpc' # cpc) => cpc' = "receive"
      /\ (cpc = "receive" /\ cpc' # cpc) =>
           cpc' = "receiving" /\ Receives' = Receives + 1
      /\ (cpc = "receiving" /\ ~ctxCancelled) => cpc' # "wait"
      /\ (cpc = "receiving" /\ cpc' = "wait") =>
           /\ ctxCancelled
           /\ workers' = workers
           /\ wg' = wg
           /\ batch' = <<>> ]_vars

\* the loop sleeps after a receive error, the polling context being live and
\* a worker of an earlier batch still running
C27_Witness ==
  /\ cpc = "backoff"
  /\ ~ctxCancelled
  /\ Receives = 2
  /\ \E i \in DOMAIN workers : workers[i].pc = "routing"

(***************************************************************************)
(* The consumer with its scheduling.  Start's goroutine and the worker     *)
(* goroutines are scheduled (no step that stays possible is put off for    *)
(* ever), a ReceiveMessage call that was issued returns, and the sleep     *)
(* ends.  Nothing makes the caller call Start or cancel the context.       *)
(* The handlers report no error and the queue accepts the deletes: what a  *)
(* worker does next does not depend on either.                             *)
(***************************************************************************)
\* no Route call returned an error and no DeleteMessage call failed
QuietWorkers ==
  \A i \in DOMAIN workers :
    /\ workers[i].routed.Error = NilErr
    /\ \A k \in DOMAIN workers[i].calls : workers[i].calls[k].ok

ConsumerLiveNext ==
  \/ ConsumerStep(StartBegin)
  \/ ConsumerStep(Cancel)
  \/ ConsumerStep(LoopCheck)
  \/ ConsumerStep(ReceiveCall)
  \/ ConsumerStep(ReceiveReturn)
  \/ ConsumerStep(Backoff)
  \/ ConsumerStep(Launch)
  \/ ConsumerStep(StartWait)
  \/ \E i \in DOMAIN workers : ConsumerStep(WorkerStart(i))
  \/ \E i \in DOMAIN workers : ConsumerStep(WorkerRouted(i)) /\ QuietWorkers'
  \/ \E i \in DOMAIN workers : ConsumerStep(WorkerDelete(i)) /\ QuietWorkers'

ConsumerFairness ==
  /\ WF_vars(ConsumerStep(LoopCheck))
  /\ WF_vars(ConsumerStep(ReceiveCall))
  /\ WF_vars(ConsumerStep(ReceiveReturn))
  /\ WF_vars(ConsumerStep(Backoff))
  /\ WF_vars(ConsumerStep(Launch))
  /\ WF_vars(ConsumerStep(StartWait))
  /\ WF_vars(ConsumerStep(\E i \in DOMAIN workers :
                            WorkerStart(i) \/ WorkerRouted(i) \/ WorkerDelete(i)))

ConsumerLiveSpec == ConsumerInit /\ [][ConsumerLiveNext]_vars /\ ConsumerFairness

\* the loop stands before a receive call that the bound on the number of
\* receive calls keeps it from issuing
Capped == cpc = "receive" /\ Receives >= MaxReceives

\* C25: once the polling context is cancelled, Start (if it was called)
\* eventually returns, whatever the receive call that was outstanding
\* returns (the cancellation error, another error, nothing, a batch), given
\* that receive calls return and workers run to their end.
C25_ShutdownCompletes ==
  (ctxCancelled /\ cpc # "idle" /\ ~Capped) ~> (cpc = "returned")

\* Start has returned after a cancellation that fell during a receive call,
\* which returned an error that is not the cancellation (the loop saw the
\* cancellation at its check), with a worker launched earlier
C25_Witness ==
  /\ cpc = "returned"
  /\ workers # <<>>
  /\ \E i \in DOMAIN clog, j \in DOMAIN clog :
       /\ i + 1 = j
       /\ j + 1 = Len(clog)
       /\ clog[i].ev = "receive"
       /\ clog[j].ev = "cancel"
       /\ clog[Len(clog)].ev = "observed"

(***************************************************************************)
(* Later claims about the core pipeline.                                   *)
(***************************************************************************)
\* the core has just returned to the innermost link of the chain (or to Route)
CoreJustReturned == pc = "ret" /\ depth = Len(chain) /\ ret.kind # "None"

\* how the envelope of the message of the call fails, if it does
EnvelopeFailure ==
  IF ~ValidateEnvelope(state.Raw) THEN "EnvelopeSchema"
  ELSE IF ~UnmarshalOK(state.Raw) THEN "EnvelopeParse"
  ELSE "None"

\* the error of the provisional result of an envelope failure
EnvelopeError(kind) ==
  PlainErr(IF kind = "EnvelopeSchema" THEN "ErrInvalidEnvelope" ELSE "ErrFailedToParseEnvelope")

\* all that a core run does on an envelope failure
EnvelopeFailureRun(kind) ==
  IF kind = "EnvelopeSchema"
  THEN <<Event("core", ""), Event("decide", "EnvelopeSchema")>>
  ELSE <<Event("core", ""), Event("envelopeValid", ""), Event("decide", "EnvelopeParse")>>

\* what happens outside the core: the middlewares' code and Route's handling
OutsideCore(e) ==
  \/ e.ev \in {"pre", "post", "skip", "again", "mwPanic", "core"}
  \/ e = Event("decide", "MiddlewareError")
  \/ e = Event("decide", "HandlerPanic")

\* C28: on a message whose envelope fails the envelope schema, or passes it
\* and fails to parse, the core returns a result with messageType and
\* messageVersion "unknown" and empty id and timestamp, after consulting the
\* failure policy exactly once, with EnvelopeSchema or EnvelopeParse
\* accordingly; it takes no later step (no routing decision, no lookup, no
\* payload validation, no handler).
C28_EnvelopeFailure ==
  (InCall /\ EnvelopeFailure # "None") =>
    LET kind == EnvelopeFailure
        run == EnvelopeFailureRun(kind)
        e == EnvelopeError(kind)
    IN /\ \A c \in 1..Len(trace) :
            trace[c].ev = "core" =>
              \/ c = Len(trace) /\ pc = "core"
              \/ /\ c + Len(run) - 1 <= Len(trace)
                 /\ SubSeq(trace, c, c + Len(run) - 1) = run
       /\ \A i \in 1..Len(trace) : OutsideCore(trace[i]) \/ \E k \in 1..Len(run) : run[k] = trace[i]
       /\ state.Envelope = <<>> /\ state.HandlerKey = ""
       /\ CoreJustReturned =>
            /\ ret.kind = kind
            /\ ret.rr = RoutedResult("unknown", "unknown",
                                     Decide(failurePolicy, kind, e, Result(FALSE, e)), "", "")
            /\ ErrorsAsCoreFailure(ret.err) /\ ret.err.fk = kind

\* the core ran twice on a message whose envelope does not parse (a middleware
\* called next again) and consulted the policy once each time
C28_Witness ==
  /\ pc = "done"
  /\ EnvelopeFailure = "EnvelopeParse"
  /\ Count("core") = 2
  /\ Count("decide") = 2
  /\ DOMAIN handlers # {}
  /\ routed.MessageType = "unknown"

\* the HandlerResult a "returned" entry of the trace stands for
FromVerdict(arg) ==
  CHOOSE hr \in {Result(sd, e) : sd \in BOOLEAN, e \in {NilErr, PlainErr("handler error")}} :
    Verdict(hr) = arg

\* C29: when the handler returns a result with an error the core consults the
\* failure policy exactly once, with HandlerError and the handler's own
\* (shouldDelete, error) as current, and returns the policy's decision (which
\* may differ from the handler's); when the handler returns no error the core
\* returns the handler's shouldDelete and does not consult the policy.
C29_HandlerErrorGoesToPolicy ==
  /\ \A i \in 1..Len(trace) :
       /\ trace[i].ev = "returned" =>
            IF FromVerdict(trace[i].arg).Error # NilErr
            THEN i < Len(trace) /\ trace[i + 1] = Event("decide", "HandlerError")
            ELSE i = Len(trace) \/ OutsideCore(trace[i + 1])
       /\ trace[i] = Event("decide", "HandlerError") =>
            /\ i > 1
            /\ trace[i - 1].ev = "returned"
            /\ FromVerdict(trace[i - 1].arg).Error # NilErr
  /\ (pc = "ret" /\ depth = Len(chain) /\ trace # <<>>) =>
       LET last == trace[Len(trace)]
       IN /\ last = Event("decide", "HandlerError") =>
               LET hr == FromVerdict(trace[Len(trace) - 1].arg)
               IN /\ ret.rr.HandlerResult = Decide(failurePolicy, "HandlerError", hr.Error, hr)
                  /\ ret.err = NilErr
          /\ last.ev = "returned" =>
               /\ ret.rr.HandlerResult = FromVerdict(last.arg)
               /\ ret.err = NilErr

\* the handler asked for the deletion and reported an error, and the result
\* the core hands back keeps the message: the policy's decision, not the
\* handler's
C29_Witness ==
  /\ pc = "ret"
  /\ depth = Len(chain)
  /\ Len(trace) >= 2
  /\ trace[Len(trace)] = Event("decide", "HandlerError")
  /\ trace[Len(trace) - 1] = Event("returned", "delete+error")
  /\ ~ret.rr.HandlerResult.ShouldDelete
  /\ Count("decide") = 1

\* the routing decision at entry i of the trace chose a key without handler,
\* and the core has looked it up
UnknownKeyAt(i) ==
  /\ trace[i].ev = "selected"
  /\ trace[i].arg \notin DOMAIN handlers
  /\ i < Len(trace)

\* C30 as stated: whenever the routing policy returns the empty key or a key
\* that is not in the handler map, the failure policy is consulted with
\* NoHandler.
C30_UnknownKeyEndsInNoHandler ==
  \A i \in 1..Len(trace) :
    UnknownKeyAt(i) =>
      \/ trace[i + 1] = Event("decide", "NoHandler")
      \/ /\ i + 1 < Len(trace)
         /\ trace[i + 1].ev = "payloadValid"
         /\ trace[i + 2] = Event("decide", "NoHandler")

\* type and version strings, the empty one among them
NameInputs == {"", "T", "v1", ":"}

\* C30, amended: whenever the routing policy returns the empty key or a key
\* that is not in the handler map, no handler is invoked and the core fails:
\* with PayloadSchema when a schema is registered under the returned key and
\* the payload fails it, with NoHandler otherwise.  No registered key is
\* empty, so the empty key always ends in NoHandler.
C30_UnknownKeyInvokesNoHandler ==
  /\ \A t \in NameInputs, v \in NameInputs : makeKey(t, v) # ""
  /\ "" \notin DOMAIN handlers \cup DOMAIN schemas
  /\ \A i \in 1..Len(trace) :
       UnknownKeyAt(i) =>
         LET key == trace[i].arg
             hasSchema == key \in DOMAIN schemas
             decided == IF hasSchema /\ ValidatePayload(schemas[key], state.Envelope[1].Message)
                        THEN i + 2
                        ELSE i + 1
         IN /\ decided <= Len(trace)
            /\ IF ~hasSchema THEN trace[decided] = Event("decide", "NoHandler")
               ELSE IF decided = i + 1 THEN trace[decided] = Event("decide", "PayloadSchema")
               ELSE /\ trace[i + 1].ev = "payloadValid"
                    /\ trace[decided] = Event("decide", "NoHandler")
            /\ decided < Len(trace) => OutsideCore(trace[decided + 1])
            /\ key = "" => trace[decided] = Event("decide", "NoHandler")
  /\ (InCall /\ Count("selected") > 0 /\ pc # "resolve"
        /\ state.HandlerKey \notin DOMAIN handlers) =>
       /\ Count("handler") = 0
       /\ (pc = "done" /\ exit = "coreFailure") => ret.err.fk \in {"NoHandler", "PayloadSchema"}

\* the policy returned the empty key on a router that holds a schema, and the
\* call ended on the NoHandler decision
C30_Witness ==
  /\ pc = "done"
  /\ exit = "coreFailure"
  /\ schemas # <<>>
  /\ state.HandlerKey = ""
  /\ ret.err.fk = "NoHandler"
  /\ \E i \in 1..Len(trace) :
       /\ trace[i] = Event("selected", "")
       /\ trace[i + 1] = Event("decide", "NoHandler")

(***************************************************************************)
(* Last claims about the registry.                                         *)
(***************************************************************************)
\* C31: the handler map and the schema map are populated independently:
\* Register leaves the schema map (and the middleware list) as it was and
\* RegisterSchema leaves the handler map as it was; and for a selected key
\* that has a handler and no schema the core validates no payload and goes on
\* to invoke the handler, whatever payload the envelope carries.
C31_HandlersAndSchemasIndependent ==
  /\ hist.lastReg.op = "Register" =>
        /\ schemas = hist.lastReg.before.schemas
        /\ middlewares = hist.lastReg.before.middlewares
  /\ hist.lastReg.op = "RegisterSchema" =>
        /\ handlers = hist.lastReg.before.handlers
        /\ middlewares = hist.lastReg.before.middlewares
  /\ \A i \in 1..Len(trace) :
        (/\ trace[i].ev = "selected"
         /\ i < Len(trace)
         /\ trace[i].arg \in DOMAIN handlers
         /\ trace[i].arg \notin DOMAIN schemas) =>
           /\ trace[i + 1] = Event("resolved", trace[i].arg)
           /\ IF i + 1 = Len(trace)
              THEN pc = "invoke"
              ELSE trace[i + 2] = Event("handler", handlers[trace[i].arg])

\* Register returned, no schema was registered, and a call for the key
\* invoked the handler with a payload that the schemas of SchemaStrings reject
C31_Witness ==
  /\ pc = "done"
  /\ hist.registered # {}
  /\ state.HandlerKey \in DOMAIN handlers
  /\ DOMAIN schemas = {}
  /\ state.Envelope # <<>>
  /\ state.Envelope[1].Message = {"userId"}
  /\ Count("handler") = 1
  /\ Count("payloadValid") = 0

\* C32: Register overwrites by key and the last writer wins: a Route call
\* that starts after a sequence of Register calls and selects a key invokes
\* the handler passed to the most recent Register for that key, and no other;
\* and a Register that passes the handler the key already holds leaves the
\* registry as it was after the first registration.
C32_LastRegisterWins ==
  /\ DOMAIN handlers = DOMAIN hist.latest
  /\ \A i \in 1..Len(trace) :
        trace[i].ev = "handler" =>
          /\ state.HandlerKey \in DOMAIN hist.latest
          /\ trace[i].arg = hist.latest[state.HandlerKey]
  /\ ( /\ hist.lastReg.op = "Register"
       /\ hist.lastReg.key \in DOMAIN hist.lastReg.before.handlers
       /\ hist.lastReg.before.handlers[hist.lastReg.key] = hist.latest[hist.lastReg.key] )
     => Registry = hist.lastReg.before

\* the most recent Register for the key passed h2, one of the two handlers
\* that compete for it, and a call that started afterwards invoked h2 once
C32_Witness ==
  /\ pc = "done"
  /\ hist.latest = [k \in {"T:v1"} |-> "h2"]
  /\ hist.start.handlers = hist.latest
  /\ \E i \in 1..Len(trace) : trace[i] = Event("handler", "h2")
  /\ Count("handler") = 1

(***************************************************************************)
(* Last claims about the consumer.                                         *)
(***************************************************************************)
\* C33: a worker issues at most one DeleteMessage call for its message: when
\* the call fails (an error of the service, or the deadline of the delete
\* context) the worker issues no second call and finishes, and no call has
\* deleted the message, which the queue will deliver again.
C33_DeleteNotRetried ==
  \A i \in DOMAIN workers :
    /\ Len(DeleteCalls(workers[i])) <= 1
    /\ \A c \in 1..Len(workers[i].calls) :
         ~workers[i].calls[c].ok =>
           /\ Finished(workers[i])
           /\ ~\E j \in DOMAIN workers :
                 \E d \in 1..Len(workers[j].calls) :
                   /\ workers[j].calls[d].receipt = workers[i].receipt
                   /\ workers[j].calls[d].ok

\* two workers whose delete failed (at the service, or on the deadline of the
\* delete context), both finished after that one call
C33_Witness ==
  /\ Len(workers) = 2
  /\ \A i \in DOMAIN workers :
       /\ Finished(workers[i])
       /\ ~workers[i].panicked
       /\ Len(workers[i].calls) = 1
       /\ ~workers[i].calls[1].ok

\* C34: every message a successful receive returned is handed to exactly one
\* worker, which calls Router.Route exactly once when the body is present:
\* the workers are, in order, the messages received so far but those of the
\* output still being launched, no message is passed over and none is given
\* to two workers.
C34_OneWorkerPerMessage ==
  /\ \A i \in DOMAIN workers :
       /\ workers[i].receipt = i
       /\ workers[i].index \in 1..workers[i].of
       \* the message before it in the output has the worker before it
       /\ workers[i].index > 1 =>
            /\ i > 1
            /\ workers[i - 1].index = workers[i].index - 1
            /\ workers[i - 1].of = workers[i].of
       \* the message after it has the next worker, or is the next to be launched
       /\ workers[i].index < workers[i].of =>
            IF i < Len(workers)
            THEN workers[i + 1].index = workers[i].index + 1
            ELSE /\ cpc = "launch"
                 /\ batch # <<>>
                 /\ Head(batch).index = workers[i].index + 1
                 /\ Head(batch).of = workers[i].of
       /\ Cardinality({j \in DOMAIN clog : clog[j] = [ev |-> "launch", receipt |-> i]}) = 1
       /\ workers[i].routes = IF workers[i].body = "nil" \/ workers[i].pc = "launched"
                              THEN 0 ELSE 1
  /\ \A k \in DOMAIN batch :
       /\ batch[k].receipt = Len(workers) + k
       /\ batch[k].index = batch[1].index + k - 1
       /\ batch[Len(batch)].index = batch[k].of
  /\ cpc # "launch" => batch = <<>>
  /\ \A j \in DOMAIN clog : clog[j].ev = "launch" => clog[j].receipt \in DOMAIN workers

\* an output of two messages whose workers have both finished, each after
\* one Route call
C34_Witness ==
  /\ Receives = 1
  /\ cpc = "check"
  /\ Len(workers) = 2
  /\ \A i \in DOMAIN workers : Finished(workers[i]) /\ workers[i].routes = 1

\* C36: a panic raised inside processMessage (by Route, or by the queue
\* client's DeleteMessage) is recovered inside the worker: the worker
\* finishes, the WaitGroup counter is decremented on that path as on every
\* other (it counts the workers that have not finished), so that wg.Wait()
\* returns once every worker has finished and Start is never left waiting.
C36_WorkerPanicIsContained ==
  /\ wg = Cardinality({i \in DOMAIN workers : ~Finished(workers[i])})
  /\ \A i \in DOMAIN workers : workers[i].panicked => Finished(workers[i])
  /\ (cpc = "wait" /\ \A i \in DOMAIN workers : Finished(workers[i])) => WaitDone(wg)
  /\ cpc \in {"idle", "check", "receive", "receiving", "backoff", "launch", "wait", "returned"}

\* Start returned after a worker recovered the panic of DeleteMessage and
\* another the panic of Route
C36_Witness ==
  /\ cpc = "returned"
  /\ \E i \in DOMAIN workers : workers[i].panicked /\ Len(workers[i].calls) = 1
  /\ \E i \in DOMAIN workers : workers[i].panicked /\ workers[i].calls = <<>>

\* the workers in flight: launched and not finished
InFlight == Cardinality({i \in DOMAIN workers : ~Finished(workers[i])})

\* the receives that returned messages and have a worker launched
OutputsLaunched == Cardinality({i \in DOMAIN workers : workers[i].index = 1})

\* C35, as claimed (violated): at every moment of Consumer.Start the number
\* of workers in flight is at most the receive batch size, 5.
C35_InFlightAtMostBatchSize == InFlight <= maxMessages

\* C35, amended: one receive hands at most 5 messages, the batch size, to
\* workers, so that the workers in flight are at most 5 for each receive that
\* returned messages so far; nothing bounds them by 5, the loop polling again
\* while the workers of earlier outputs are running.
C35_InFlightAtMostBatchSizePerReceive ==
  /\ wg = InFlight
  /\ \A i \in DOMAIN workers : workers[i].of <= maxMessages
  /\ \A k \in DOMAIN batch : batch[k].of <= maxMessages
  /\ InFlight <= maxMessages * OutputsLaunched
  /\ OutputsLaunched <= Receives

\* six workers in flight after two receives
C35_Witness ==
  /\ InFlight = 6
  /\ Receives = 2
  /\ OutputsLaunched = 2
  /\ cpc = "check"

(***************************************************************************)
(* Last claims about the router.                                           *)
(***************************************************************************)
\* C37: the set of registered handler keys only grows: the handler map holds
\* every key Register returned for and every key a Route call in progress
\* found when it started, so that a key ExactMatchPolicy selected from the
\* snapshot of the available keys is found when the core looks it up, in the
\* same Route call, whatever Register calls ran in between.
C37_HandlerKeysOnlyGrow ==
  /\ DOMAIN handlers = hist.registered
  /\ InCall => DOMAIN hist.start.handlers \subseteq DOMAIN handlers
  /\ (Resolved /\ routingPolicy = "ExactMatchPolicy" /\ state.HandlerKey # "") =>
       /\ state.HandlerKey \in DOMAIN handlers
       /\ state.HandlerExists
       /\ state.Handler # "nil"
       /\ ~PolicyConsulted("NoHandler")

\* ExactMatchPolicy selected "T:v1", Register returned for "T:v2" before the
\* lookup, and the handler of "T:v1" was found and invoked
C37_Witness ==
  /\ pc = "done"
  /\ routingPolicy = "ExactMatchPolicy"
  /\ state.HandlerKey = "T:v1"
  /\ DOMAIN hist.start.handlers = {"T:v1"}
  /\ DOMAIN handlers = {"T:v1", "T:v2"}
  /\ Count("handler") = 1

(***************************************************************************)
(* Registrations under names that contain ':'.                             *)
(***************************************************************************)
\* message types and versions, with and without the separator
KeyTypes == {"a", "a:b"}
KeyVersions == {"c", "b:c"}

KeyNext ==
  \/ \E t \in KeyTypes, v \in KeyVersions, h \in Handlers :
       /\ Register(t, v, h) /\ NoteRegister(t, v, h, FALSE)
       /\ UNCHANGED callvars /\ UNCHANGED <<cvars, pvars>>
  \/ \E t \in KeyTypes, v \in KeyVersions, s \in SchemaStrings :
       /\ RegisterSchema(t, v, s) /\ NoteRegisterSchema(t, v, s, FALSE)
       /\ UNCHANGED callvars /\ UNCHANGED <<cvars, pvars>>

KeySpec == Init /\ [][KeyNext]_vars

\* C38, as claimed (violated): handler keys are injective on (messageType,
\* messageVersion): two registrations with different pairs never share a key,
\* so that every pair that was registered still has, under its key, the
\* handler of its own most recent Register, also when the type or the
\* version contains ':'.
C38_KeysInjective ==
  /\ \A p \in DOMAIN hist.byPair, q \in DOMAIN hist.byPair :
       p # q => makeKey(p[1], p[2]) # makeKey(q[1], q[2])
  /\ \A p \in DOMAIN hist.byPair :
       /\ makeKey(p[1], p[2]) \in DOMAIN handlers
       /\ handlers[makeKey(p[1], p[2])] = hist.byPair[p]

\* C39: Route is read-only with respect to the router: every step of a Route
\* call, from its start to its return, whatever the message and whatever the
\* outcome (success, a failure of any kind, a panic), leaves the handler map,
\* the schema map, the middleware list and the two policies as they were.
C39_RouteIsReadOnly ==
  [][(pc # "idle" \/ pc' # "idle") => rvars' = rvars]_vars

\* a call that ended on a panic in a router that holds a handler, a schema
\* and a middleware, all as the call found them
C39_Witness ==
  /\ pc = "done"
  /\ exit = "panic"
  /\ DOMAIN handlers # {}
  /\ DOMAIN schemas # {}
  /\ middlewares # <<>>
  /\ Registry = hist.start

====
